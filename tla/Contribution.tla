---------------------------- MODULE Contribution ----------------------------
(***************************************************************************)
(* What the live trip capture promises a contributor, whatever dialogue    *)
(* leads there: the places pinned so far form a trail; once the trail has  *)
(* at least two places it can be shown for review; what is filed is a walk *)
(* over that trail, from its first place on, in the order pinned and       *)
(* skipping none.  A walk may stop one place short (see the README: that   *)
(* is what the code does when the trip is ended at a transfer question).   *)
(* Places are compared the way the code compares them, ignoring case.      *)
(***************************************************************************)
EXTENDS Naturals, Sequences

CONSTANTS Places,     \* case-folded names a contributor may pin
          MaxFiled    \* bound: trips filed by one contributor

VARIABLES phase,      \* "idle", "capturing" or "review"
          trail,      \* the places pinned, in order
          filed       \* the walks handed over for review by an admin

vars == <<phase, trail, filed>>

Init == phase = "idle" /\ trail = <<>> /\ filed = <<>>

Begin == /\ phase = "idle" /\ Len(filed) < MaxFiled
         /\ phase' = "capturing"
         /\ UNCHANGED <<trail, filed>>

\* A place is pinned; the last one opens the review.
Pin(p) == /\ phase = "capturing"
          /\ trail' = Append(trail, p)
          /\ \/ phase' = "capturing"
             \/ phase' = "review" /\ Len(trail') >= 2
          /\ UNCHANGED filed

File(n) == /\ phase = "review"
           /\ n >= 2
           /\ filed' = Append(filed, SubSeq(trail, 1, n))
           /\ phase' = "idle" /\ trail' = <<>>

Drop == /\ phase # "idle"
        /\ phase' = "idle" /\ trail' = <<>>
        /\ UNCHANGED filed

Next == \/ Begin \/ Drop
        \/ \E p \in Places : Pin(p)
        \/ \E n \in {Len(trail) - 1, Len(trail)} : File(n)

Spec == Init /\ [][Next]_vars
=============================================================================
