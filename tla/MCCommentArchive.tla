--------------------------- MODULE MCCommentArchive ---------------------------
(***************************************************************************)
(* Two recordings whose programmes overlap, and two processes, one of      *)
(* which opens only one of them.                                           *)
(***************************************************************************)
EXTENDS CommentArchive

CONSTANTS long, short, p1, p2

MCRangeOf == [t \in {long, short} |-> IF t = long THEN 1 .. UNITS ELSE {UNITS}]
MCDemands ==
  [p \in Processes |-> IF p = p1 THEN {<<long, TRUE>>} ELSE {<<short, TRUE>>, <<None, FALSE>>}]
=============================================================================
