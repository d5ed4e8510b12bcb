---------------------------- MODULE MCKvsTexts ----------------------------
(***************************************************************************)
(* KvsTexts with small arrays where the code's size means nothing, so that *)
(* texts fit with their terminator, fit without, or do not fit.  Requests  *)
(* have the array of the code, 64 bytes: the lengths of their words run    *)
(* over the places where a piece meets the end of the array, of the        *)
(* doubled block, and of a block made to measure.                          *)
(***************************************************************************)
EXTENDS KvsTexts

CONSTANTS ca, cb, t1, t2

MCTexts == {<<ca>>, <<cb, ca>>, <<cb, cb, ca>>}
MCOffsets == -2..1

\* Every line of up to five bytes, one after the other.
MCLines == UNION {[1..n -> {"sep", "char"}] : n \in 0..5}

WordOf(n) == [j \in 1..n |-> 97]
MCRequests ==
  {<<WordOf(3), WordOf(n)>> : n \in 0..64 \cup 105..140} \cup
  {<<WordOf(3), WordOf(n), WordOf(1)>> : n \in 30..55 \cup 108..130} \cup
  {<<WordOf(3), WordOf(n), WordOf(m)>> : n \in {1, 40, 122}, m \in {0, 10, 60, 150}}

\* Short answers, the longest that fits with its terminator, one that fits without,
\* one that does not fit; two lines are typed.
Of(t, n) == [t |-> t, n |-> n]
MCKinds == {Of("line", n) : n \in {1, 4}} \cup {Of("bulk", n) : n \in {0, 3, 4, 6}}
             \cup {Of("nil", 0), Of("none", 0)}
=============================================================================
