-------------------------- MODULE MCContentExtract --------------------------
(***************************************************************************)
(* ContentExtract on every page put together from up to MaxPieces pieces:  *)
(* headings and their ends, ends of tags whose names begin like a heading's *)
(* or end like one, text, quotes, escapes and half tags.                   *)
(***************************************************************************)
EXTENDS ContentExtract, SequencesExt

CONSTANT MaxPieces

MCChar == {"<", ">", "/", "h", "1", "2", " ", "q", "\\", "x"}

Pieces == {<<"<", "h", "1", ">">>, <<"<", "/", "h", "1", ">">>, <<"<", "h", "2", " ">>,
           <<"<", "/", "h", "2", ">">>, <<"<", "/", "h", ">">>,
           <<"<", "/", "x", "h", "2", ">">>, <<"<">>, <<">">>,
           <<"x">>, <<"q">>, <<"\\">>}

MCPages == {FlattenSeq(p) : p \in UNION {[1 .. n -> Pieces] : n \in 0 .. MaxPieces}}
=============================================================================
