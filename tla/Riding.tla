------------------------------- MODULE Riding -------------------------------
(***************************************************************************)
(* From an approved corridor to a rider at the destination: which segments *)
(* a rider is sent along (repository.py, orchestrator._try_corridor_reply) *)
(* and the numbered steps these become (formatting/responses.py), checked  *)
(* by a rider who follows the steps one by one.                            *)
(*                                                                         *)
(* Corridors are those the recorder files: each segment starts where the   *)
(* one before it ends and no place comes twice.  A trip brought to its end *)
(* leads to the corridor's destination; one ended with 'end' at a transfer *)
(* question stops a place short of it, since the last leg is dropped       *)
(* (_build_segments).  Distances are left out: any place of the corridor   *)
(* may be the rider's nearest, and a rider who is nowhere near gets no     *)
(* corridor reply.                                                         *)
(***************************************************************************)
EXTENDS Clipping, Enumerations

CONSTANTS Anchors, Nowhere,
          Modes,
          MaxSegments   \* bound: segments of the corridor

ASSUME RidingAssumption == Nowhere \notin Anchors /\ MaxSegments \in Nat

VARIABLES segments,   \* the corridor, in order of Segment.sequence
          destination,\* Corridor.destination, Nowhere until the corridor is filed
          phase,      \* "drawing", "filed", "riding" or "refused" (routed without it)
          at,         \* where the rider is
          dest,       \* where the rider wants to go
          steps       \* the numbered steps still to follow

vars == <<segments, destination, phase, at, dest, steps>>

-----------------------------------------------------------------------------
(* Which segments                                                          *)

\* Asked for the corridor's destination, the rider goes all the way.
Clip(segs, join, target) ==
  IF target = destination THEN ClipFromAnchor(segs, join) ELSE ClipBetween(segs, join, target)

\* end_anchor: set only for a destination found mid-corridor.
EndAnchor(target) == IF target = destination THEN Nowhere ELSE target

-----------------------------------------------------------------------------
(* Which steps                                                             *)

\* Mutant: every segment is a step of its own.
RunStartsEverywhere(segs) == DOMAIN segs

\* Mutant: a change of vehicle within a mode is not noticed.
RunStartsByMode(segs) == {i \in DOMAIN segs : i = 1 \/ segs[i].mode # segs[i - 1].mode}

\* _group_runs: positions that start a new step.
RunStarts(segs) ==
  {i \in DOMAIN segs : i = 1 \/ segs[i].mode # segs[i - 1].mode \/ segs[i].transfer}

\* format_corridor: the first step starts where the rider joins, each other
\* where the one before it ended; the last ends at end_anchor if there is one,
\* else where the last segment does.
Steps(segs, join, end_anchor) ==
  LET starts == InOrder(RunStarts(segs), Len(segs))
      end(k) == IF k < Len(starts) THEN segs[starts[k + 1] - 1].to
                ELSE IF end_anchor # Nowhere THEN end_anchor ELSE Last(segs).to
  IN [k \in DOMAIN starts |-> [mode |-> segs[starts[k]].mode,
                               from |-> IF k = 1 THEN join ELSE end(k - 1),
                               to   |-> end(k)]]

-----------------------------------------------------------------------------
Init == /\ segments = <<>> /\ destination = Nowhere
        /\ phase = "drawing"
        /\ at = Nowhere /\ dest = Nowhere
        /\ steps = <<>>

\* A contributor's corridor grows by one segment.
Draw(seg) ==
  /\ phase = "drawing" /\ Len(segments) < MaxSegments
  /\ segments # <<>> => seg.from = Last(segments).to
  /\ LET new == Append(seg.via, seg.to)
         used == JoinPoints(segments) \cup {seg.from}
     IN IsInjective(new) /\ ToSet(new) \cap used = {}
  /\ segments' = Append(segments, seg)
  /\ UNCHANGED <<destination, phase, at, dest, steps>>

\* The corridor is filed and approved, with its last leg or without it.
File(d) ==
  /\ phase = "drawing" /\ segments # <<>>
  /\ d = Last(segments).to \/ d \notin JoinPoints(segments)
  /\ destination' = d
  /\ phase' = "filed"
  /\ UNCHANGED <<segments, at, dest, steps>>

\* A rider whose nearest place is "join" asks for "target".
Ask(join, target) ==
  /\ phase = "filed"
  /\ join \in JoinPoints(segments) /\ target \in JoinPoints(segments) \cup {destination}
  /\ LET clipped == Clip(segments, join, target)
     IN /\ phase' = IF clipped = <<>> THEN "refused" ELSE "riding"
        /\ steps' = IF clipped = <<>> THEN <<>> ELSE Steps(clipped, join, EndAnchor(target))
  /\ at' = join /\ dest' = target
  /\ UNCHANGED <<segments, destination>>

\* The rider follows the next step.
Follow ==
  /\ phase = "riding" /\ steps # <<>>
  /\ at' = Head(steps).to
  /\ steps' = Tail(steps)
  /\ UNCHANGED <<segments, destination, phase, dest>>

\* Arrived, or refused: asks no more.
Rest ==
  /\ phase = "refused" \/ (phase = "riding" /\ steps = <<>>)
  /\ UNCHANGED vars

Vias == UNION {[1..n -> Anchors] : n \in 0..2}

Next == \/ \E f, t \in Anchors, v \in Vias, m \in Modes, x \in BOOLEAN :
             Draw([from |-> f, via |-> v, to |-> t, mode |-> m, transfer |-> x])
        \/ \E d \in Anchors : File(d)
        \/ \E j, t \in Anchors : Ask(j, t)
        \/ Follow \/ Rest

Spec == Init /\ [][Next]_vars

-----------------------------------------------------------------------------
(* Properties                                                              *)

\* One ride in one vehicle along the corridor: from a place where it is boarded to
\* one further on where it is left, with no change of mode and no transfer between.
Ride(segs, step) ==
  \E i, j \in DOMAIN segs :
    /\ i <= j /\ Boards(segs[i], step.from) /\ Alights(segs[j], step.to)
    /\ step.mode = segs[i].mode
    /\ \A k \in (i + 1)..j : segs[k].mode = segs[k - 1].mode /\ ~segs[k].transfer

\* Every step, from wherever the rider joins, is one ride that can be made from
\* where the rider is by then, and after the last the rider is at the place asked
\* for - or, of a corridor filed a place short of it, where its last segment ends.
StepsAreRides ==
  phase = "riding" =>
    /\ \A k \in DOMAIN steps : Ride(segments, steps[k])
    /\ steps # <<>> => Head(steps).from = at
    /\ steps = <<>> => \/ at = dest
                       \/ /\ dest = destination /\ destination \notin JoinPoints(segments)
                          /\ at = Last(segments).to

\* A rider is refused only when the place lies behind, never when it is ahead; of
\* a corridor filed a place short of its destination, the rider at its last place
\* is refused the rest of the way.
ServedWhenAhead ==
  phase = "refused" =>
    IF dest \in JoinPoints(segments) THEN Milestone(segments, dest) <= Milestone(segments, at)
    ELSE at = Last(segments).to

\* A rider changes vehicle only where the contributor did: where a step ends
\* short of the destination, the next segment has another mode or is a transfer.
ChangesAreReal ==
  phase = "riding" =>
    \A k \in 1..(Len(steps) - 1) :
      \E i \in 2..Len(segments) :
        /\ segments[i].from = steps[k].to
        /\ segments[i].transfer \/ segments[i].mode # segments[i - 1].mode

\* No step leads back along the road, or nowhere at all, except between two
\* passthroughs of one segment, whose order the clipping does not look at.
NoWayBack ==
  [][Follow => Milestone(segments, at) < Milestone(segments, at') \/ Along(segments, at, at')]_vars
=============================================================================
