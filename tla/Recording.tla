------------------------------ MODULE Recording ------------------------------
(***************************************************************************)
(* The live trip capture of app/flows/recording.py, as one contributor     *)
(* walks through it: RecordingState (app/session/state.py) field by field, *)
(* one action per stage handler, the end-of-trip rules, and the corridor   *)
(* that a confirmed recording becomes (submission.cross_validate).         *)
(*                                                                         *)
(* A reply a stage cannot use (text where a location is due, a location    *)
(* where text is due, an unknown fare, yes or no word) only re-prompts:    *)
(* the handler writes nothing, a stuttering step here.  So is a confirm    *)
(* that validation or the database turns down, or that raises.             *)
(*                                                                         *)
(* Abstracted: coordinates, timestamps, mode and fare.  A leg keeps where  *)
(* it was described instead, which the properties need to tell whether it  *)
(* ends up on the right segment.                                           *)
(***************************************************************************)
EXTENDS Enumerations, FiniteSets, SequencesExt

CONSTANTS Texts,        \* replies a contributor may type for a name
          NoText,       \* None
          Strip,        \* _strip_anchor_prefix, on Texts
          Lower,        \* str.lower, on Texts
          Long,         \* the texts of over 120 characters
          MaxAnchors,   \* bound: anchors named on the way (the destination may be one more)
          MaxFiled      \* bound: corridors filed by this contributor

ASSUME RecordingAssumption ==
  /\ NoText \notin Texts
  /\ Strip \in [Texts -> Texts]
  /\ DOMAIN Lower = Texts
  /\ Long \subseteq Texts
  /\ MaxAnchors \in Nat
  /\ MaxFiled \in Nat

VARIABLES awaiting,              \* "idle" stands for session.recording = None
          destination_name,
          anchors,
          legs,
          pending_leg,
          pending_anchor_name,
          next_leg_is_transfer,
          filed                  \* pending corridors created so far

capture == <<destination_name, anchors, legs, pending_leg,
             pending_anchor_name, next_leg_is_transfer>>
vars == <<awaiting, capture, filed>>

Stages == {"idle", "destination", "origin_name", "origin_location", "leg_info",
           "next_anchor_name", "next_anchor_location", "transfer_decision",
           "destination_location", "confirmation"}

Anchor == [name : Texts, is_passthrough : BOOLEAN]

\* "at" is the position of the anchor where the contributor described the leg.
Leg == [at : Nat \ {0}, transfer : BOOLEAN]
NoLeg == [at |-> 0, transfer |-> FALSE]

-----------------------------------------------------------------------------
(* From a recording to a corridor                                          *)

SameName(a, b) == Lower[a] = Lower[b]

\* Mutant: what is stripped from a place's name is disregarded in the destination's.
LooksLikeStripped(name) == SameName(name, Strip[destination_name])

LooksLikeDestination(name) == SameName(name, destination_name)

\* Positions of the anchors that delimit segments; the last anchor always does.
Endpoints(as) == InOrder({i \in DOMAIN as : ~as[i].is_passthrough \/ i = Len(as)}, Len(as))

\* Mutant: the places passed through on a leg are lost.
BuildSegmentsForgetsLandmarks(as, ls) ==
  IF Len(as) < 2 \/ ls = <<>> THEN <<>>
  ELSE LET ends == Endpoints(as)
           count == IF Len(ls) < Len(ends) - 1 THEN Len(ls) ELSE Len(ends) - 1
       IN [k \in 1..count |-> [from_anchor |-> as[ends[k]].name, to_anchor |-> as[ends[k + 1]].name,
                               passthroughs |-> <<>>, leg |-> ls[k]]]

BuildSegments(as, ls) ==
  IF Len(as) < 2 \/ ls = <<>> THEN <<>>
  ELSE LET ends == Endpoints(as)
           count == IF Len(ls) < Len(ends) - 1 THEN Len(ls) ELSE Len(ends) - 1
       IN [k \in 1..count |->
             [from_anchor  |-> as[ends[k]].name,
              to_anchor    |-> as[ends[k + 1]].name,
              passthroughs |-> [j \in 1..(ends[k + 1] - ends[k] - 1) |-> as[ends[k] + j].name],
              leg          |-> ls[k]]]

\* canonical_by_lookup: of two anchors that differ in case the later one wins.
Canonical(as, name) ==
  as[CHOOSE i \in DOMAIN as : /\ SameName(as[i].name, name)
                              /\ \A j \in (i + 1)..Len(as) : ~SameName(as[j].name, name)].name

CanonicalSegment(as, s) ==
  [s EXCEPT !.from_anchor  = Canonical(as, @),
            !.to_anchor    = Canonical(as, @),
            !.passthroughs = [j \in DOMAIN @ |-> Canonical(as, @[j])]]

\* What cross_validate turns into a corridor, and when neither it nor the fields
\* of AnchorInput and CorridorSubmission find an error.
Corridor(as, ls, dest) ==
  [destination |-> Canonical(as, dest),
   segments    |-> LET segs == BuildSegments(as, ls)
                   IN [k \in DOMAIN segs |-> CanonicalSegment(as, segs[k])]]

Valid(as, ls, dest) ==
  /\ dest \notin Long
  /\ \A i \in DOMAIN as : as[i].name \notin Long
  /\ \A i, j \in DOMAIN as : as[i].name = as[j].name => i = j
  /\ \E i \in DOMAIN as : SameName(as[i].name, dest)
  /\ \A k \in DOMAIN Corridor(as, ls, dest).segments :
       LET s == Corridor(as, ls, dest).segments[k] IN
       /\ s.from_anchor # s.to_anchor
       /\ \A p \in DOMAIN s.passthroughs : s.passthroughs[p] \notin {s.from_anchor, s.to_anchor}

-----------------------------------------------------------------------------
(* Steps shared by several handlers                                        *)

\* session.recording = None
Clear == /\ awaiting' = "idle"
         /\ destination_name' = NoText
         /\ anchors' = <<>>
         /\ legs' = <<>>
         /\ pending_leg' = NoLeg
         /\ pending_anchor_name' = NoText
         /\ next_leg_is_transfer' = FALSE

\* The recording with the pending name pinned and the pending leg promoted.
Pinned == Append(anchors, [name |-> pending_anchor_name, is_passthrough |-> FALSE])
\* Mutants: no check that a leg is pending; the pending leg is never moved over.
PromotedUnchecked == Append(legs, pending_leg)
PromotedNever == legs

Promoted == IF pending_leg = NoLeg THEN legs ELSE Append(legs, pending_leg)

\* _show_summary_and_confirm, on the given anchors and legs.
ShowSummary(as, ls) ==
  /\ IF BuildSegments(as, ls) = <<>>
     THEN Clear
     ELSE /\ awaiting' = "confirmation"
          /\ anchors' = as
          /\ legs' = ls
          /\ pending_leg' = NoLeg
          /\ pending_anchor_name' = NoText
          /\ UNCHANGED <<destination_name, next_leg_is_transfer>>
  /\ UNCHANGED filed

-----------------------------------------------------------------------------
(* The dialogue                                                            *)

Init == /\ awaiting = "idle"
        /\ destination_name = NoText
        /\ anchors = <<>>
        /\ legs = <<>>
        /\ pending_leg = NoLeg
        /\ pending_anchor_name = NoText
        /\ next_leg_is_transfer = FALSE
        /\ filed = <<>>

Start == /\ awaiting = "idle"
         /\ Len(filed) < MaxFiled
         /\ awaiting' = "destination"
         /\ UNCHANGED <<capture, filed>>

GiveDestination(t) ==
  /\ awaiting = "destination"
  /\ destination_name' = t
  /\ awaiting' = "origin_name"
  /\ UNCHANGED <<anchors, legs, pending_leg, pending_anchor_name, next_leg_is_transfer, filed>>

GiveOriginName(t) ==
  /\ awaiting = "origin_name"
  /\ pending_anchor_name' = Strip[t]
  /\ awaiting' = "origin_location"
  /\ UNCHANGED <<destination_name, anchors, legs, pending_leg, next_leg_is_transfer, filed>>

PinOrigin ==
  /\ awaiting = "origin_location"
  /\ anchors' = Pinned
  /\ pending_anchor_name' = NoText
  /\ awaiting' = "leg_info"
  /\ UNCHANGED <<destination_name, legs, pending_leg, next_leg_is_transfer, filed>>

\* Mutant: the transfer flag is not reset.
DescribeLegKeepsFlag ==
  /\ awaiting = "leg_info"
  /\ pending_leg' = [at |-> Len(anchors), transfer |-> next_leg_is_transfer]
  /\ awaiting' = "next_anchor_name"
  /\ UNCHANGED <<destination_name, anchors, legs, pending_anchor_name, next_leg_is_transfer, filed>>

DescribeLeg ==
  /\ awaiting = "leg_info"
  /\ pending_leg' = [at |-> Len(anchors), transfer |-> next_leg_is_transfer]
  /\ next_leg_is_transfer' = FALSE
  /\ awaiting' = "next_anchor_name"
  /\ UNCHANGED <<destination_name, anchors, legs, pending_anchor_name, filed>>

NameNextAnchor(t) ==
  /\ awaiting = "next_anchor_name"
  /\ Len(anchors) < MaxAnchors
  /\ pending_anchor_name' = Strip[t]
  /\ awaiting' = "next_anchor_location"
  /\ UNCHANGED <<destination_name, anchors, legs, pending_leg, next_leg_is_transfer, filed>>

\* Mutant: arriving at the destination is not noticed.
PinNextAnchorAsksAlways ==
  /\ awaiting = "next_anchor_location"
  /\ anchors' = Pinned
  /\ legs' = Promoted
  /\ pending_leg' = NoLeg
  /\ pending_anchor_name' = NoText
  /\ awaiting' = "transfer_decision"
  /\ UNCHANGED <<destination_name, next_leg_is_transfer, filed>>

\* Pinning the place named like the destination is the arrival.
PinNextAnchor ==
  /\ awaiting = "next_anchor_location"
  /\ \/ /\ ~LooksLikeDestination(pending_anchor_name)
        /\ anchors' = Pinned
        /\ legs' = Promoted
        /\ pending_leg' = NoLeg
        /\ pending_anchor_name' = NoText
        /\ awaiting' = "transfer_decision"
        /\ UNCHANGED <<destination_name, next_leg_is_transfer, filed>>
     \/ /\ LooksLikeDestination(pending_anchor_name)
        /\ ShowSummary(Pinned, Promoted)

\* Mutant: the place is not marked as passed through.
SameVehicleUnmarked ==
  /\ awaiting = "transfer_decision"
  /\ awaiting' = "next_anchor_name"
  /\ UNCHANGED <<capture, filed>>

SameVehicle ==
  /\ awaiting = "transfer_decision"
  /\ anchors' = [anchors EXCEPT ![Len(anchors)] = [name |-> @.name, is_passthrough |-> TRUE]]
  /\ awaiting' = "next_anchor_name"
  /\ UNCHANGED <<destination_name, legs, pending_leg, pending_anchor_name,
                 next_leg_is_transfer, filed>>

ChangedVehicle ==
  /\ awaiting = "transfer_decision"
  /\ next_leg_is_transfer' = TRUE
  /\ awaiting' = "leg_info"
  /\ UNCHANGED <<destination_name, anchors, legs, pending_leg, pending_anchor_name, filed>>

PinDestination ==
  /\ awaiting = "destination_location"
  /\ ShowSummary(Pinned, Promoted)

-----------------------------------------------------------------------------
(* "end" at any stage: the cases of end_recording, in the code's order     *)

TooEarly == \/ anchors = <<>>
            \/ awaiting \in {"destination", "origin_name", "origin_location"}
            \/ legs = <<>> /\ pending_leg = NoLeg

\* With a name given and no location yet, "end" only nudges.
PinDue == awaiting = "next_anchor_location" /\ pending_anchor_name # NoText

NeedsDestination == \/ pending_leg # NoLeg
                    \/ ~LooksLikeDestination(Last(anchors).name)

LegDue == next_leg_is_transfer /\ pending_leg = NoLeg

EndNotRecording ==
  /\ awaiting = "idle"
  /\ UNCHANGED vars

EndTooEarly ==
  /\ awaiting # "idle" /\ TooEarly
  /\ Clear
  /\ UNCHANGED filed

EndAtDestination ==
  /\ awaiting # "idle" /\ ~TooEarly /\ ~PinDue /\ ~NeedsDestination
  /\ ShowSummary(anchors, legs)

EndBeforeLeg ==
  /\ awaiting # "idle" /\ ~TooEarly /\ ~PinDue /\ NeedsDestination /\ LegDue
  /\ awaiting' = "leg_info"
  /\ UNCHANGED <<capture, filed>>

\* Mutant: ending the trip drops the leg under way.
EndBeforeDestinationDropsLeg ==
  /\ awaiting # "idle" /\ ~TooEarly /\ ~PinDue /\ NeedsDestination /\ ~LegDue
  /\ pending_anchor_name' = destination_name
  /\ pending_leg' = NoLeg
  /\ awaiting' = "destination_location"
  /\ UNCHANGED <<destination_name, anchors, legs, next_leg_is_transfer, filed>>

EndBeforeDestination ==
  /\ awaiting # "idle" /\ ~TooEarly /\ ~PinDue /\ NeedsDestination /\ ~LegDue
  /\ pending_anchor_name' = destination_name
  /\ awaiting' = "destination_location"
  /\ UNCHANGED <<destination_name, anchors, legs, pending_leg, next_leg_is_transfer, filed>>

-----------------------------------------------------------------------------
(* Leaving the dialogue                                                    *)

\* _submit: validated, committed, and the recording cleared.
Confirm ==
  /\ awaiting = "confirmation"
  /\ Valid(anchors, legs, destination_name)
  /\ filed' = Append(filed, Corridor(anchors, legs, destination_name))
  /\ Clear

\* "no" or "discard" at the confirmation prompt.
Discard ==
  /\ awaiting = "confirmation"
  /\ Clear
  /\ UNCHANGED filed

\* "cancel" at any point deletes the session; so does the store's TTL.
Forget ==
  /\ awaiting # "idle"
  /\ Clear
  /\ UNCHANGED filed

End == EndNotRecording \/ EndTooEarly \/ EndAtDestination \/ EndBeforeLeg \/ EndBeforeDestination

Next == \/ Start
        \/ \E t \in Texts : GiveDestination(t) \/ GiveOriginName(t) \/ NameNextAnchor(t)
        \/ PinOrigin \/ DescribeLeg \/ PinNextAnchor \/ PinDestination
        \/ SameVehicle \/ ChangedVehicle
        \/ End \/ Confirm \/ Discard \/ Forget

Spec == Init /\ [][Next]_vars

-----------------------------------------------------------------------------
(* Properties                                                              *)

\* Every field keeps the type RecordingState declares for it.
TypeOK ==
  /\ awaiting \in Stages
  /\ destination_name \in Texts \cup {NoText}
  /\ anchors \in Seq(Anchor)
  /\ legs \in Seq(Leg)
  /\ pending_leg \in Leg \cup {NoLeg}
  /\ pending_anchor_name \in Texts \cup {NoText}
  /\ next_leg_is_transfer \in BOOLEAN

\* Anchors where the contributor boarded, changed or arrived; where each leg
\* was described; and the former with no leg yet.
Changes == {i \in DOMAIN anchors : ~anchors[i].is_passthrough}
LegStarts == {legs[k].at : k \in DOMAIN legs}
Open == Changes \ LegStarts

\* What the handler of each stage may rely on.  A location is only asked for
\* with the name it pins (the code's fallback names are never used).  At most
\* one change point still lacks its leg: it is the last anchor, and it is where
\* the pending leg was described.  Only an "end" sent at a transfer question
\* leaves two behind.
StageInv ==
  LET n == Len(anchors) IN
  /\ awaiting \notin {"idle", "destination"} => destination_name # NoText
  /\ awaiting \in {"origin_location", "next_anchor_location", "destination_location"} =>
       pending_anchor_name # NoText
  /\ awaiting = "destination_location" => pending_anchor_name = destination_name
  /\ LegStarts \subseteq Changes
  /\ awaiting \in {"idle", "destination", "origin_name", "origin_location"} =>
       anchors = <<>> /\ legs = <<>> /\ pending_leg = NoLeg
  /\ awaiting = "leg_info" =>
       pending_leg = NoLeg /\ Open = {n}
  /\ awaiting \in {"next_anchor_name", "next_anchor_location"} =>
       IF pending_leg = NoLeg THEN legs # <<>> /\ Open = {} ELSE pending_leg.at = n /\ Open = {n}
  /\ awaiting = "transfer_decision" =>
       pending_leg = NoLeg /\ legs # <<>> /\ Open = {n}
  /\ awaiting = "destination_location" =>
       IF pending_leg = NoLeg THEN legs # <<>> /\ Open \subseteq {n}
                              ELSE pending_leg.at = n /\ Open = {n}
  /\ awaiting = "confirmation" =>
       pending_leg = NoLeg /\ legs # <<>> /\ n \in Open /\ Open \subseteq {n - 1, n}

\* BuildSegments pairs the k-th leg with the k-th change point.  That is the
\* point where the contributor described it: legs are in trip order, each at a
\* change point, and no change point before the last leg was left without one.
LegsOnTheirSegments ==
  /\ \A j, k \in DOMAIN legs : j < k => legs[j].at < legs[k].at
  /\ \A k \in DOMAIN legs : legs[k].at \in Changes
  /\ \A i \in Open, k \in DOMAIN legs : legs[k].at < i

\* A leg is marked as a transfer exactly when a vehicle was left for it: every
\* leg but the first, whatever mix of "same", "changed" and "end" came before.
\* The flag that carries the answer lives only until that leg is described.
TransfersAreChanges ==
  /\ next_leg_is_transfer <=> awaiting = "leg_info" /\ legs # <<>>
  /\ \A k \in DOMAIN legs : legs[k].transfer <=> k > 1
  /\ pending_leg # NoLeg => (pending_leg.transfer <=> legs # <<>>)

\* From the first completed leg on, the contributor is asked to confirm exactly
\* while the last place pinned is the one named as destination: the review is
\* neither reached short of it nor missed on arrival.
ReviewOnArrival ==
  legs # <<>> => (awaiting = "confirmation" <=> LooksLikeDestination(Last(anchors).name))

\* Sharing a location never throws the trip away: wherever a location can
\* complete the recording, the summary it leads to has a segment to show.
PinningNeverDiscards ==
  awaiting \in {"next_anchor_location", "destination_location"} =>
    BuildSegments(Pinned, Promoted) # <<>>

\* "fix and try 'confirm' again" (recording.py:530): nothing in the review can be
\* fixed, so a review that opens must be one that can be filed.  Whatever mix of
\* landmarks, changes and "end" led to it, only an overlong name or a place named
\* twice stands in the way.
ReviewIsFileable ==
  /\ awaiting = "confirmation"
  /\ destination_name \notin Long
  /\ \A i \in DOMAIN anchors : anchors[i].name \notin Long
  /\ \A i, j \in DOMAIN anchors : SameName(anchors[i].name, anchors[j].name) => i = j
  => Valid(anchors, legs, destination_name)

\* While a recording is open no answer undoes an earlier one: anchors and legs
\* only grow, only the anchor just asked about may turn into a landmark, and a
\* leg once described stays pending until it is promoted.
CaptureOnlyGrows ==
  [][awaiting' # "idle" =>
       /\ Len(anchors) <= Len(anchors')
       /\ \A i \in DOMAIN anchors :
            anchors'[i] = anchors[i] \/ (i = Len(anchors) /\ awaiting = "transfer_decision"
                                         /\ anchors'[i].name = anchors[i].name)
       /\ legs' = legs \/ legs' = Append(legs, pending_leg)
       /\ pending_leg # NoLeg => pending_leg' = pending_leg \/ legs' # legs]_vars

\* "we have a leg for the final segment already, we just need the destination's
\* coordinates" (recording.py:405-407): a filed corridor leads to its destination.
FiledReachesDestination ==
  \A i \in DOMAIN filed : Last(filed[i].segments).to_anchor = filed[i].destination

-----------------------------------------------------------------------------
(* The dialogue implements Contribution                                    *)

Folded(names) == [i \in DOMAIN names |-> Lower[names[i]]]

\* The places a corridor leads through, in order.
Walk(segments) ==
  <<segments[1].from_anchor>>
    \o FlattenSeq([k \in DOMAIN segments |->
                     Append(segments[k].passthroughs, segments[k].to_anchor)])

Promise == INSTANCE Contribution WITH
  Places   <- {Lower[t] : t \in Texts},
  MaxFiled <- MaxFiled,
  phase    <- CASE awaiting = "idle" -> "idle"
                [] awaiting = "confirmation" -> "review"
                [] OTHER -> "capturing",
  trail    <- Folded([i \in DOMAIN anchors |-> anchors[i].name]),
  filed    <- [i \in DOMAIN filed |-> Folded(Walk(filed[i].segments))]

\* What the contributor is promised, kept by the whole dialogue.
ImplementsContribution == Promise!Spec
=============================================================================
