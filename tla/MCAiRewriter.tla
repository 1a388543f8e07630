---------------------------- MODULE MCAiRewriter ----------------------------
(* Instances of AiRewriter for TLC. *)
EXTENDS AiRewriter, TLC

CONSTANTS a, b, c   \* surfaces

MCCandidates(values) ==
  [k \in DOMAIN values |->
     [value |-> values[k], n |-> k, supplemental |-> FALSE, reranked |-> FALSE]]

MCSegments(Lists, Supplements) ==
  {[free |-> f, supplement |-> s, cands |-> MCCandidates(l)] :
     f \in BOOLEAN, s \in Supplements, l \in Lists}

\* Lists with nothing to choose, repeated surfaces and more surfaces than the
\* limit; the supplement is new, is there already, or there is none.  Three
\* segments only with short lists.
MCInputs ==
  LET Lists == {<<>>, <<a>>, <<a, a>>, <<a, b>>, <<a, a, b>>, <<a, b, a, c>>, <<b, a, c, b>>}
  IN UNION {[1..n -> MCSegments(Lists, {None, c})] : n \in 1..2}
     \cup [1..3 -> MCSegments({<<a>>, <<a, b>>}, {None, c})]
=============================================================================
