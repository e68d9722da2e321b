--------------------------- MODULE MCMetaExtract ----------------------------
(***************************************************************************)
(* MetaExtract on every page put together from up to MaxPieces pieces.     *)
(* The keys are cut down to what tells them apart, and two names stand for *)
(* the five: one is the beginning of the other.                            *)
(***************************************************************************)
EXTENDS MetaExtract, SequencesExt

CONSTANT MaxPieces

MCChar == {"<", ">", " ", "m", "n", "p", "c", "=", "q", "\\", "d", "e"}
MCMeta == <<"m", " ">>
MCNameKey == <<"n", "=", "q">>
MCPropertyKey == <<"p", "=", "q">>
MCContentKey == <<"c", "=", "q">>
MCAttributes == {<<"d">>, <<"d", "e">>}

Pieces == {<<"<", "m", " ">>, <<"<", "m", " ", "n", "=", "q", "d", "q", " ">>,
           <<"p", "=", "q", "d", "e", "q", " ">>, <<"c", "=", "q", "e">>,
           <<"c", "=", "q", "e", "q", ">">>, <<"c", "=", "q", "e", "q", " ">>,
           <<"q", ">">>, <<">">>, <<"\\", "q">>, <<"\\">>, <<"c">>, <<"q">>}

\* A plain meta tag of either name
PlainTag == <<"<", "m", " ", "p", "=", "q", "d", "q", " ", "c", "=", "q", "e", "q", ">">>
OtherTag == <<"<", "m", " ", "n", "=", "q", "d", "e", "q", " ", "c", "=", "q", "e", "q", ">">>

\* Any page of pieces, any page behind which a plain meta tag comes, and one where a
\* name has two values before the other has one.
MCPages ==
  LET pages == {FlattenSeq(p) : p \in UNION {[1 .. n -> Pieces] : n \in 0 .. MaxPieces}}
  IN  pages \cup {p \o PlainTag : p \in pages} \cup {OtherTag \o OtherTag \o PlainTag}
=============================================================================
