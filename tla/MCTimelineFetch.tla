--------------------------- MODULE MCTimelineFetch ---------------------------
(* Instances of TimelineFetch for TLC. *)
EXTENDS TimelineFetch, TLC

CONSTANTS e1, e2

\* A page of two items, then a last page whose item has no id.
LongTimeline == <<<<e1, e2>>, <<NoId>>>>
LongBodies   == {e1, e2} \cup DOMAIN LongTimeline

\* One page of one item, for two callers at once.
ShortTimeline == <<<<e1>>>>
ShortBodies   == {e1} \cup DOMAIN ShortTimeline

\* One page of two items, for two callers at once.
PairTimeline == <<<<e1, e2>>>>
PairBodies   == {e1, e2} \cup DOMAIN PairTimeline

\* The callers of a safety run are interchangeable.
CallerSymmetry == Permutations(Callers)
=============================================================================
