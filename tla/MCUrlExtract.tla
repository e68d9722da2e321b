---------------------------- MODULE MCUrlExtract ----------------------------
(***************************************************************************)
(* UrlExtract on every page of up to MaxLength characters.  h and / may be *)
(* in a path, : and the quote may not; the prefix has characters of both   *)
(* kinds, as https://www.theguardian.com/ has.                             *)
(***************************************************************************)
EXTENDS UrlExtract

CONSTANT MaxLength

MCPrefix == <<"h", ":", "/">>
MCPages == UNION {[1 .. n -> Char] : n \in 0 .. MaxLength}
=============================================================================
