---------------------------- MODULE MetaExtract -----------------------------
(***************************************************************************)
(* lib/meta-extract.c: the child process that copies the content of a      *)
(* page's meta tags, each name's to a file of its own.  It returns as soon *)
(* as it has a value for every name.                                       *)
(*                                                                         *)
(* As in ContentExtract, at is the position of the character in c and      *)
(* Len(text) + 1 is feof, and a -1 that is handed up to main is the same   *)
(* as going on at the end of the file.  A value is kept as the place       *)
(* [from, to) of the page it is copied from.                               *)
(***************************************************************************)
EXTENDS Matching, FiniteSetsExt

CONSTANTS Char, Pages,
          Meta,         \* "meta ", with the blank match_meta_tag wants
          NameKey,      \* name="
          PropertyKey,  \* property="
          ContentKey,   \* content="
          Attributes    \* attributes[], lines 8-14

ASSUME MetaAssumption ==
  /\ Pages \subseteq Seq(Char) /\ Attributes \subseteq Seq(Char) \ {<<>>}
  /\ {Meta, NameKey, PropertyKey, ContentKey} \subseteq Seq(Char) \ {<<>>}
  /\ Attributes # {}

Blank == " "

\* The strings are what lines 8-14, 149, 158, 232 and 305 have.
ASSUME MarkupAssumption ==
  /\ Meta[Len(Meta)] = Blank
  /\ \A j \in 1 .. Len(Meta) - 1 : Meta[j] \notin {Blank, "<", ">", "q"}
  /\ \A p \in Attributes \cup {NameKey, PropertyKey, ContentKey} :
       \A j \in 1 .. Len(p) : p[j] \notin {Blank, "<", ">"}
  /\ NameKey[1] = "n" /\ PropertyKey[1] # "n" /\ ContentKey[1] # "q"
  /\ NameKey[Len(NameKey)] = "q" /\ PropertyKey[Len(PropertyKey)] = "q"
  /\ \A a \in Attributes : \A j \in 1 .. Len(a) : a[j] # "q"

VARIABLES text,         \* the page
          at,           \* where c is
          mode,         \* the function main is in
          attr,         \* the name whose value write_value_attribute looks for
          out,          \* the values copied
          done          \* main has returned

vars == <<text, at, mode, attr, out, done>>

End == Len(text) + 1

\* c, when it is at position j, and next()
c(j) == IF j \in DOMAIN text THEN text[j] ELSE "EOF"
After(j) == Min({j + 1, End})

Value(a, from, to) == [attr |-> a, from |-> from, to |-> to]

\* A mutant of Extracted: main counts the values and not the names.
ExtractedCount(values) ==
  IF Cardinality({w \in values : w.to < End}) >= Cardinality(Attributes) THEN Attributes ELSE {}

\* The names extracted[] has a 1 for: their value's closing quote was found.
Extracted(values) == {v.attr : v \in {w \in values : w.to < End}}

NoName == <<>>

Init == /\ text \in Pages
        /\ at = 0 /\ mode = "tag" /\ attr = NoName
        /\ out = {}
        /\ done = FALSE

-----------------------------------------------------------------------------
\* How much of p is at position i: where next_match_string stops, and with it the
\* loops of lines 153-159 and 239-268.
Length(p, i) ==
  Max({k \in 0 .. Len(p) : i + k <= End /\ \A j \in 1 .. k : text[i + j - 1] = p[j]})

\* The first position from i on with a character that is not in S
Past(S, i) == Min({End} \cup {j \in DOMAIN text : j >= i /\ text[j] \notin S})

\* The quote that line 134 finds is closed by itself: strings are not skipped here.
NextOpenTag(i) ==
  LET S == {j \in DOMAIN text : j >= i /\ text[j] = "<"}
  IN  IF S = {} THEN End ELSE Min(S) + 1

\* close_string: behind the next quote.  A \ does not protect it: after the next()
\* of line 370 line 371 looks at the character that came.
CloseString(i) == Min({End} \cup {j + 1 : j \in {k \in DOMAIN text : k >= i /\ text[k] = "q"}})

\* The loops of close_tag (ends = {">"}) and of lines 282-292 (ends = {Blank}): the
\* character behind a string is skipped without a look, ends or not.
Skip(ends, i) ==
  LET skip[j \in 1 .. End] ==
        CASE j = End         -> End
          [] c(j) \in ends -> j
          [] c(j) = "q"  -> skip[After(CloseString(j + 1))]
          [] OTHER           -> skip[j + 1]
  IN  skip[i]

\* A mutant of ValueEnd: a \ does not protect the quote behind it.
ValueEndUnescaped(i) == Min({End} \cup {j \in DOMAIN text : j >= i /\ text[j] = "q"})

\* Lines 310-324: a value ends at the next quote that is not escaped.
ValueEnd(i) ==
  LET end[j \in 1 .. End + 1] ==
        CASE j >= End         -> End
          [] c(j) = "q"   -> j
          [] c(j) = "\\"  -> end[j + 2]
          [] OTHER            -> end[j + 1]
  IN  end[i]

-----------------------------------------------------------------------------
GoTo(m, j) == mode' = m /\ at' = j

Busy(m) == ~done /\ mode = m /\ at < End

\* main, lines 43-56: to the next tag, and into it if it is a meta tag.
Tag ==
  LET i == NextOpenTag(at)
      k == Length(Meta, i) IN
  /\ Busy("tag")
  /\ IF k = Len(Meta) THEN GoTo("name", i + k) ELSE GoTo("tag", Skip({">"}, i + k))
  /\ UNCHANGED <<text, attr, out, done>>

\* get_name_attribute, one attribute.  What it returns is followed by a next() in
\* main (line 80), unless the name is one of those looked for.
Name ==
  LET i == Past({Blank}, at)
      key == IF c(i) = "n" THEN NameKey ELSE PropertyKey
      v == i + Len(key)
      k == Max({Length(a, v) : a \in Attributes}) IN
  /\ Busy("name")
  /\ \/ /\ c(i) = ">"
        /\ GoTo("tag", After(i)) /\ UNCHANGED attr
     \/ /\ c(i) # ">" /\ Length(key, i) < Len(key)
        /\ GoTo("name", Skip({Blank}, i + Length(key, i))) /\ UNCHANGED attr
     \/ /\ Length(key, i) = Len(key)
        /\ \/ \E a \in Attributes :
                /\ Len(a) = k /\ Length(a, v) = k /\ c(v + k) = "q"
                /\ GoTo("value", v + k) /\ attr' = a
           \/ /\ ~\E a \in Attributes : Len(a) = k /\ Length(a, v) = k /\ c(v + k) = "q"
              /\ GoTo("tag", After(IF c(v + k) = "q" THEN v + k ELSE CloseString(v + k)))
              /\ UNCHANGED attr
  /\ UNCHANGED <<text, out, done>>

\* A mutant of ValueOf: a break in place of line 320's return.
ValueOfOn ==
  LET i == Past({Blank}, at)
      k == Length(ContentKey, i)
      e == ValueEnd(i + k) IN
  /\ Busy("value")
  /\ \/ /\ c(i) = ">"
        /\ GoTo("tag", After(i)) /\ UNCHANGED out
     \/ /\ c(i) # ">" /\ k < Len(ContentKey)
        /\ GoTo("value", After(i + k)) /\ UNCHANGED out
     \/ /\ k = Len(ContentKey)
        /\ out' = out \cup {Value(attr, i + k, e)}
        /\ GoTo("value", After(e))
  /\ UNCHANGED <<text, attr, done>>

\* write_value_attribute, one turn of its loop, and main's lines 61-80.
ValueOf ==
  LET i == Past({Blank}, at)
      k == Length(ContentKey, i)
      e == ValueEnd(i + k) IN
  /\ Busy("value")
  /\ \/ /\ c(i) = ">"
        /\ GoTo("tag", After(i)) /\ UNCHANGED <<out, done>>
     \/ /\ c(i) # ">" /\ k < Len(ContentKey)
        /\ GoTo("value", After(i + k)) /\ UNCHANGED <<out, done>>
     \/ /\ k = Len(ContentKey)
        /\ out' = out \cup {Value(attr, i + k, e)}
        /\ done' = (Extracted(out') = Attributes)
        /\ GoTo("tag", After(e))
  /\ UNCHANGED <<text, attr>>

\* A mutant of Return: only main looks at feof.
ReturnInMain ==
  /\ ~done /\ at = End /\ mode = "tag"
  /\ done' = TRUE
  /\ UNCHANGED <<text, at, mode, attr, out>>

\* feof: every loop ends.
Return ==
  /\ ~done /\ at = End
  /\ done' = TRUE
  /\ UNCHANGED <<text, at, mode, attr, out>>

Next == Tag \/ Name \/ ValueOf \/ Return

Spec == Init /\ [][Next]_vars

FairSpec == Spec /\ WF_vars(Next)
-----------------------------------------------------------------------------
\* The attribute key="a" is at position i.
Named(a, i) ==
  \E key \in {NameKey, PropertyKey} :
    At(key, text, i) /\ At(a \o <<"q">>, text, i + Len(key))

\* How many \s are just before position j of a value: a character behind an odd
\* number of them is escaped.
Backslashes(from, j) == Max({k \in 0 .. j - from : \A n \in 1 .. k : text[j - n] = "\\"})

Escaped(from, j) == Backslashes(from, j) % 2 = 1

\* No tag ends in the characters from i up to to, but at a '>' that line 328
\* passes over because a beginning of content=" is just before it.
SameTag(i, to) ==
  \A j \in i .. to : text[j] = ">" =>
    \E n \in 1 .. Len(ContentKey) : EndsBefore(ContentKey, n, text, j)

\* The value is that of a content attribute up to its closing quote, the first
\* that is not escaped, or to the end of the file, and the name it is filed under
\* is in the same tag, as far as this program can tell (lines 298-330).
IsContent(v) ==
  /\ v.from > Len(ContentKey) /\ At(ContentKey, text, v.from - Len(ContentKey))
  /\ \A j \in v.from .. v.to - 1 : text[j] = "q" => Escaped(v.from, j)
  /\ v.to < End => text[v.to] = "q" /\ ~Escaped(v.from, v.to)
  /\ \E i \in 1 .. v.from - 1 : Named(v.attr, i) /\ SameTag(i, v.from - Len(ContentKey))

\* Nothing else is copied, whatever the page is like.
ValuesAreContent == \A v \in out : IsContent(v)

\* The tag <meta key="a" content="..."> at position i, and where its value begins
\* and ends: one without quotes and escapes, behind which the tag ends.
Opening(key, a) == <<"<">> \o Meta \o key \o a \o <<"q", Blank>> \o ContentKey

ValueAt(key, a, i) ==
  LET from == i + Len(Opening(key, a))
  IN  Value(a, from, Min({End} \cup {j \in DOMAIN text : j >= from /\ text[j] \in {"q", "\\"}}))

\* Where the value of plain meta tag m ends
To(m) == ValueAt(m.key, m.attr, m.at).to

PlainMeta(key, a, i) ==
  /\ At(Opening(key, a), text, i)
  /\ LET to == ValueAt(key, a, i).to IN c(to) = "q" /\ c(to + 1) = ">"

PlainMetas ==
  {m \in [key : {NameKey, PropertyKey}, attr : Attributes, at : DOMAIN text] :
     PlainMeta(m.key, m.attr, m.at)}

\* Up to position i the page is as a careful author writes it: every tag is
\* closed before the next begins, and the only quotes are those of the plain meta
\* tags, metas.
Calm(i, metas) ==
  \A j \in 1 .. i - 1 :
    /\ text[j] = "<" => \E k \in j + 1 .. i - 1 :
                          text[k] = ">" /\ \A n \in j + 1 .. k : text[n] # "<"
    /\ text[j] = "q" => \E m \in metas : j \in m.at .. To(m)

\* After a calm part of the page a plain meta tag's value is copied, unless every
\* name had its value before.
PlainMetaCopied ==
  done => LET metas == PlainMetas IN
          \A m \in metas :
            Calm(m.at, metas) => \/ ValueAt(m.key, m.attr, m.at) \in out
                          \/ Attributes \subseteq {v.attr : v \in {w \in out : w.from < m.at}}

\* A meta tag begins at position i.
MetaTag(i) == c(i) = "<" /\ At(Meta, text, i + 1)

\* Every value has a meta tag to itself: between the tag's beginning and the value
\* is the name it is filed under, and every other value lies before that tag or behind
\* this value.  So a tag gives one value, whatever else is written in it, and no
\* character of the page is filed twice, although the scan may lose a tag's end (lines
\* 175 and 328) and go on in the next tag with the name of the last.
OneValuePerTag ==
  \A w \in out : \E i \in 1 .. w.from - 1 :
    /\ MetaTag(i) /\ \E j \in i + 1 .. w.from - 1 : Named(w.attr, j)
    /\ \A v \in out \ {w} : v.to < i \/ w.to < v.from

\* The scan of any page ends.
Returns == <>done
-----------------------------------------------------------------------------
(***************************************************************************)
(* The inductive invariant                                                 *)
(***************************************************************************)
TypeOK ==
  /\ text \in Seq(Char) /\ at \in 0 .. End
  /\ mode \in {"tag", "name", "value"} /\ (mode = "value" => attr \in Attributes)
  /\ \A v \in out : v.attr \in Attributes /\ v.from \in 1 .. End /\ v.to \in v.from .. End
  /\ done \in BOOLEAN

\* The name whose value is looked for has been read in this tag.
NameSeen == mode = "value" =>
  \E i \in 1 .. at - 1 : Named(attr, i) /\ SameTag(i, at - 1)

\* It returns before the end of the page only with a value for every name.
ReturnsWithAll == done /\ at < End => Attributes \subseteq {v.attr : v \in out}

IInv == TypeOK /\ NameSeen /\ ValuesAreContent /\ ReturnsWithAll

(***************************************************************************)
(* The one behind OneValuePerTag                                           *)
(***************************************************************************)
\* The scan is in a meta tag behind all values, and if it looks for one it has read
\* the name in this tag.
TagBegun == mode # "tag" =>
  \E i \in 1 .. at - 1 :
    /\ MetaTag(i) /\ \A v \in out : v.to < i
    /\ mode = "value" => \E j \in i + 1 .. at - 1 : Named(attr, j)

\* Before the end of the page the scan is behind all values.
ScanBehind == \A v \in out : at < End => v.to < at

OneInv == OneValuePerTag /\ TagBegun /\ ScanBehind

(***************************************************************************)
(* The one behind PlainMetaCopied                                          *)
(***************************************************************************)
\* Where plain meta tag m has its key, and the quote behind its name
KeyOf(m) == m.at + 1 + Len(Meta)
QuoteOf(m) == KeyOf(m) + Len(m.key) + Len(m.attr)

\* The scan of plain meta tag m is at its key or looks for its value.
InMeta(m) ==
  \/ mode = "name" /\ at \in {KeyOf(m) - 1, KeyOf(m)}
  \/ mode = "value" /\ attr = m.attr /\ at \in {QuoteOf(m), QuoteOf(m) + 1}

\* Position i is not behind the '<' of a plain meta tag and up to its last quote.
Outside(i) == \A m \in PlainMetas : i \notin m.at + 1 .. To(m)

\* The scan has plain meta tag m ahead or is in it.
Approaches(m) ==
  /\ \A v \in out : v.from < m.at
  /\ \/ mode # "value" /\ at <= m.at /\ Outside(at)
     \/ \E n \in PlainMetas : n.at <= m.at /\ InMeta(n)

PlainMetasMet ==
  \A m \in PlainMetas :
    Calm(m.at, PlainMetas) => Approaches(m) \/ ValueAt(m.key, m.attr, m.at) \in out
=============================================================================
