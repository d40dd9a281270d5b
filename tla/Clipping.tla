------------------------------ MODULE Clipping ------------------------------
(***************************************************************************)
(* Which segments of a corridor a rider travels, from the place of boarding *)
(* to the destination (app/corridors/repository.py).  A corridor is the     *)
(* sequence of its segments in order of Segment.sequence, each with the     *)
(* anchors from, via (passthroughs, in order) and to.                       *)
(***************************************************************************)
EXTENDS Naturals, FiniteSets, SequencesExt

Via(seg) == ToSet(seg.via)

\* _corridor_anchors: every end and every passthrough is a place to join.
JoinPoints(segs) == UNION {{s.from, s.to} \cup Via(s) : s \in ToSet(segs)}

\* Where a rider gets on and off the vehicle of a segment.
Boards(seg, a) == seg.from = a \/ a \in Via(seg)
Alights(seg, a) == seg.to = a \/ a \in Via(seg)

\* The first position where P holds, 0 if none.
First(P(_), positions) ==
  IF \E i \in positions : P(i)
  THEN CHOOSE i \in positions : P(i) /\ \A j \in positions : P(j) => i <= j
  ELSE 0

\* Mutant: a rider can only board where a segment starts.
BoardingSegmentEndsOnly(segs, a) == First(LAMBDA i : segs[i].from = a, DOMAIN segs)

BoardingSegment(segs, a) == First(LAMBDA i : Boards(segs[i], a), DOMAIN segs)

ClipFromAnchor(segs, a) ==
  LET i == BoardingSegment(segs, a)
  IN IF i = 0 THEN <<>> ELSE SubSeq(segs, i, Len(segs))

\* Mutant: the destination is looked for from the first segment on.
ClipBetweenAnywhere(segs, origin, target) ==
  LET j == First(LAMBDA k : Alights(segs[k], target), DOMAIN segs)
  IN IF j = 0 THEN <<>> ELSE SubSeq(segs, 1, j)

ClipBetween(segs, origin, target) ==
  LET i == BoardingSegment(segs, origin)
      j == First(LAMBDA k : Alights(segs[k], target), i..Len(segs))
  IN IF i = 0 \/ j = 0 THEN <<>> ELSE SubSeq(segs, i, j)

-----------------------------------------------------------------------------
(* For the properties.                                                     *)

\* The corridor as the road it follows, and how far along it an anchor lies.
Road(segs) == <<segs[1].from>> \o FlattenSeq([k \in DOMAIN segs |-> Append(segs[k].via, segs[k].to)])

Milestone(segs, a) == CHOOSE i \in DOMAIN Road(segs) : Road(segs)[i] = a

\* Both are passthroughs of one segment, whose order the clipping does not look at.
Along(segs, a, b) == \E s \in ToSet(segs) : {a, b} \subseteq Via(s)
=============================================================================
