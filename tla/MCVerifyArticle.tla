-------------------------- MODULE MCVerifyArticle ---------------------------
(***************************************************************************)
(* VerifyArticle on every page of up to MaxLength characters, with one     *)
(* element as in the code's table and one that overlaps itself.            *)
(***************************************************************************)
EXTENDS VerifyArticle

CONSTANT MaxLength

MCElements == {<<"<", "m">>, <<"m", "m", "<">>}
MCPages == UNION {[1 .. n -> Char] : n \in 0 .. MaxLength}
=============================================================================
