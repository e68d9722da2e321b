------------------------------ MODULE Matching ------------------------------
(***************************************************************************)
(* What it means for a pattern to occur in a text, said without a scanner. *)
(* The properties of the scanners are stated in it.                        *)
(***************************************************************************)
EXTENDS Integers, Sequences

\* The first k characters of p are those of t just before position i.
EndsBefore(p, k, t, i) ==
  /\ k < i
  /\ \A j \in 1 .. k : t[i - k + j - 1] = p[j]

\* p occurs in t at position i.
At(p, t, i) ==
  /\ i \in 1 .. Len(t) + 1
  /\ i + Len(p) <= Len(t) + 1
  /\ \A j \in 1 .. Len(p) : t[i + j - 1] = p[j]

\* No beginning of p of up to k characters ends just before position i: a scanner
\* that has not seen any of p has nothing to give up when it gets there.
Clean(p, k, t, i) == \A n \in 1 .. k : ~EndsBefore(p, n, t, i)

\* One character c read by a scanner that has matched k characters of p and does
\* not look back.
Matched(p, k, c) == IF p[k + 1] = c THEN k + 1 ELSE 0
=============================================================================
