--------------------------- MODULE RecordingProofs ---------------------------
(***************************************************************************)
(* Proofs about Recording, for all texts and bounds.  The inductive        *)
(* invariant joins the types to what every stage relies on (StageInv), the *)
(* order of the legs and the transfer marks; each of them needs the others *)
(* (a leg is appended in order because StageInv says its start is the last *)
(* anchor and has no leg yet).                                             *)
(***************************************************************************)
EXTENDS Recording, EnumerationsProofs

LegsInOrder == \A j, k \in DOMAIN legs : j < k => legs[j].at < legs[k].at

IInv == TypeOK /\ StageInv /\ LegsInOrder /\ TransfersAreChanges /\ ReviewOnArrival

-----------------------------------------------------------------------------
(* What the shared steps do to the sequences and to the sets over them     *)

LEMMA PinnedType ==
  ASSUME TypeOK, pending_anchor_name # NoText
  PROVE  Pinned \in Seq(Anchor)
<1>1. [name |-> pending_anchor_name, is_passthrough |-> FALSE] \in Anchor
  BY DEF TypeOK, Anchor
<1> QED BY <1>1 DEF Pinned, TypeOK

LEMMA PromotedType ==
  ASSUME TypeOK
  PROVE  Promoted \in Seq(Leg)
BY DEF Promoted, TypeOK

\* Pinning adds one change point, at the end.
LEMMA PinnedChanges ==
  ASSUME TypeOK, anchors' = Pinned
  PROVE  /\ Len(anchors') = Len(anchors) + 1
         /\ Changes' = Changes \cup {Len(anchors) + 1}
<1> DEFINE n == Len(anchors)
<1>1. /\ anchors \in Seq(Anchor) /\ n \in Nat
      /\ Len(anchors') = n + 1
      /\ DOMAIN anchors = 1..n
      /\ DOMAIN anchors' = 1..(n + 1)
  BY DEF TypeOK, Pinned
<1>2. /\ \A i \in 1..n : anchors'[i] = anchors[i]
      /\ anchors'[n + 1].is_passthrough = FALSE
  BY <1>1 DEF Pinned
<1> QED BY <1>1, <1>2 DEF Changes

\* Promoting the pending leg adds its start to the starts.
LEMMA PromotedStarts ==
  ASSUME TypeOK, legs' = Promoted
  PROVE  LegStarts' = IF pending_leg = NoLeg THEN LegStarts ELSE LegStarts \cup {pending_leg.at}
<1>1. CASE pending_leg = NoLeg
  BY <1>1 DEF Promoted, LegStarts
<1>2. CASE pending_leg # NoLeg
  <2> DEFINE m == Len(legs)
  <2>1. legs' = Append(legs, pending_leg) /\ legs \in Seq(Leg) /\ m \in Nat
    BY <1>2 DEF Promoted, TypeOK
  <2>2. /\ DOMAIN legs = 1..m /\ DOMAIN legs' = 1..(m + 1)
        /\ \A k \in 1..m : legs'[k] = legs[k]
        /\ legs'[m + 1] = pending_leg
    BY <2>1
  <2> QED BY <1>2, <2>2 DEF LegStarts
<1> QED BY <1>1, <1>2

LEMMA LandmarkType ==
  ASSUME NEW a \in Anchor
  PROVE  [name |-> a.name, is_passthrough |-> TRUE] \in Anchor
BY DEF Anchor

\* "same" takes the last anchor out of the change points.
LEMMA SameChanges ==
  ASSUME TypeOK, anchors # <<>>,
         anchors' = [anchors EXCEPT ![Len(anchors)] = [name |-> @.name, is_passthrough |-> TRUE]]
  PROVE  /\ anchors' \in Seq(Anchor)
         /\ Len(anchors') = Len(anchors)
         /\ Changes' = Changes \ {Len(anchors)}
         /\ Last(anchors').name = Last(anchors).name
<1> DEFINE n == Len(anchors)
<1>1. /\ anchors \in Seq(Anchor) /\ n \in Nat \ {0}
      /\ DOMAIN anchors = 1..n /\ DOMAIN anchors' = 1..n
  BY DEF TypeOK
<1>2. [name |-> anchors[n].name, is_passthrough |-> TRUE] \in Anchor
  BY <1>1, LandmarkType
<1>3. /\ anchors' \in Seq(Anchor) /\ Len(anchors') = n
      /\ \A i \in 1..n : anchors'[i] = IF i = n THEN [name |-> anchors[n].name, is_passthrough |-> TRUE]
                                        ELSE anchors[i]
  BY <1>1, <1>2, ExceptSeq
<1>4. anchors'[n].is_passthrough = TRUE
  BY <1>1, <1>3
<1>5. Changes' = Changes \ {n}
  BY <1>1, <1>3, <1>4 DEF Changes
<1>6. Last(anchors').name = Last(anchors).name
  BY <1>1, <1>3 DEF Last
<1> QED BY <1>3, <1>5, <1>6

\* The order survives a promotion: the pending leg starts after all others.
LEMMA PromotedOrder ==
  ASSUME TypeOK, LegsInOrder, legs' = Promoted,
         pending_leg # NoLeg => \A k \in DOMAIN legs : legs[k].at < pending_leg.at
  PROVE  LegsInOrder'
<1>1. CASE pending_leg = NoLeg
  BY <1>1 DEF Promoted, LegsInOrder
<1>2. CASE pending_leg # NoLeg
  <2> DEFINE m == Len(legs)
  <2>1. legs' = Append(legs, pending_leg) /\ legs \in Seq(Leg) /\ m \in Nat
    BY <1>2 DEF Promoted, TypeOK
  <2>2. /\ DOMAIN legs = 1..m /\ DOMAIN legs' = 1..(m + 1)
        /\ \A k \in 1..m : legs'[k] = legs[k]
        /\ legs'[m + 1] = pending_leg
    BY <2>1
  <2> QED BY <1>2, <2>1, <2>2 DEF LegsInOrder
<1> QED BY <1>1, <1>2

-----------------------------------------------------------------------------
(* The invariant holds initially and after a reset                         *)

LEMMA EmptySets ==
  /\ anchors = <<>> => Changes = {}
  /\ legs = <<>> => LegStarts = {}
BY DEF Changes, LegStarts

LEMMA InitInv == Init => IInv
<1> SUFFICES ASSUME Init PROVE IInv
  OBVIOUS
<1>1. TypeOK
  <2>1. awaiting \in Stages /\ destination_name \in Texts \cup {NoText}
    BY DEF Init, Stages
  <2>2. anchors \in Seq(Anchor) /\ legs \in Seq(Leg)
    BY DEF Init
  <2>3. pending_leg \in Leg \cup {NoLeg} /\ next_leg_is_transfer \in BOOLEAN
    BY DEF Init
  <2>4. pending_anchor_name \in Texts \cup {NoText}
    BY DEF Init
  <2> QED BY <2>1, <2>2, <2>3, <2>4 DEF TypeOK
<1>2. StageInv
  BY EmptySets DEF Init, StageInv
<1>3. LegsInOrder /\ TransfersAreChanges /\ ReviewOnArrival
  BY DEF Init, LegsInOrder, TransfersAreChanges, ReviewOnArrival
<1> QED BY <1>1, <1>2, <1>3 DEF IInv

LEMMA ClearInv ==
  ASSUME Clear
  PROVE  IInv'
<1>1. TypeOK'
  <2>1. awaiting' \in Stages /\ destination_name' \in Texts \cup {NoText}
    BY DEF Clear, Stages
  <2>2. anchors' \in Seq(Anchor) /\ legs' \in Seq(Leg)
    BY DEF Clear
  <2>3. pending_leg' \in Leg \cup {NoLeg} /\ next_leg_is_transfer' \in BOOLEAN
    BY DEF Clear
  <2>4. pending_anchor_name' \in Texts \cup {NoText}
    BY DEF Clear
  <2> QED BY <2>1, <2>2, <2>3, <2>4 DEF TypeOK
<1>2. Changes' = {} /\ LegStarts' = {}
  BY DEF Clear, Changes, LegStarts
<1>3. StageInv'
  BY <1>2 DEF Clear, StageInv
<1>4. LegsInOrder' /\ TransfersAreChanges' /\ ReviewOnArrival'
  BY DEF Clear, LegsInOrder, TransfersAreChanges, ReviewOnArrival
<1> QED BY <1>1, <1>3, <1>4 DEF IInv

-----------------------------------------------------------------------------
(* One lemma per action: it preserves the invariant                        *)

LEMMA StartInv ==
  ASSUME IInv, Start
  PROVE  IInv'
<1> USE DEF Start, capture
<1>1. TypeOK'
  BY DEF IInv, TypeOK, Stages
<1>2. Changes' = Changes /\ LegStarts' = LegStarts /\ Open' = Open
  BY DEF Changes, LegStarts, Open
<1>3. StageInv' /\ LegsInOrder' /\ TransfersAreChanges' /\ ReviewOnArrival'
  BY <1>2 DEF IInv, StageInv, LegsInOrder, TransfersAreChanges, ReviewOnArrival
<1> QED BY <1>1, <1>3 DEF IInv

LEMMA GiveDestinationInv ==
  ASSUME IInv, NEW t \in Texts, GiveDestination(t)
  PROVE  IInv'
<1> USE DEF GiveDestination
<1>1. TypeOK'
  BY DEF IInv, TypeOK, Stages
<1>2. Changes' = Changes /\ LegStarts' = LegStarts /\ Open' = Open
  BY DEF Changes, LegStarts, Open
<1>3. StageInv'
  BY <1>2, RecordingAssumption DEF IInv, StageInv
<1>4. LegsInOrder' /\ TransfersAreChanges'
  BY DEF IInv, LegsInOrder, TransfersAreChanges
<1>5. ReviewOnArrival'
  BY DEF IInv, StageInv, ReviewOnArrival
<1> QED BY <1>1, <1>3, <1>4, <1>5 DEF IInv

LEMMA GiveOriginNameInv ==
  ASSUME IInv, NEW t \in Texts, GiveOriginName(t)
  PROVE  IInv'
<1> USE DEF GiveOriginName
<1>1. Strip[t] \in Texts /\ Strip[t] # NoText
  BY RecordingAssumption
<1>2. TypeOK'
  BY <1>1 DEF IInv, TypeOK, Stages
<1>3. Changes' = Changes /\ LegStarts' = LegStarts /\ Open' = Open
  BY DEF Changes, LegStarts, Open
<1>4. StageInv'
  BY <1>1, <1>3 DEF IInv, StageInv
<1>5. LegsInOrder' /\ TransfersAreChanges' /\ ReviewOnArrival'
  BY DEF IInv, StageInv, LegsInOrder, TransfersAreChanges, ReviewOnArrival
<1> QED BY <1>2, <1>4, <1>5 DEF IInv

LEMMA PinOriginInv ==
  ASSUME IInv, PinOrigin
  PROVE  IInv'
<1> USE DEF PinOrigin
<1>1. anchors' \in Seq(Anchor)
  BY PinnedType DEF IInv, StageInv
<1>2. TypeOK'
  BY <1>1 DEF IInv, TypeOK, Stages
<1>3. anchors = <<>> /\ legs = <<>> /\ legs' = <<>> /\ pending_leg' = NoLeg
  BY DEF IInv, StageInv
<1>4. Len(anchors') = 1 /\ Changes' = {1}
  BY <1>3, PinnedChanges, EmptySets DEF IInv
<1>5. LegStarts' = {} /\ Open' = {1}
  BY <1>3, <1>4 DEF LegStarts, Open
<1>6. StageInv'
  BY <1>3, <1>4, <1>5 DEF IInv, StageInv
<1>7. LegsInOrder' /\ TransfersAreChanges' /\ ReviewOnArrival'
  BY <1>3 DEF IInv, LegsInOrder, TransfersAreChanges, ReviewOnArrival
<1> QED BY <1>2, <1>6, <1>7 DEF IInv

LEMMA DescribeLegInv ==
  ASSUME IInv, DescribeLeg
  PROVE  IInv'
<1> USE DEF DescribeLeg
<1>1. Len(anchors) \in Nat /\ Len(anchors) \in Open /\ Open \subseteq DOMAIN anchors
  BY DEF IInv, TypeOK, StageInv, Open, Changes
<1>2. Len(anchors) \in Nat \ {0}
  BY <1>1 DEF IInv, TypeOK
<1>3. pending_leg' \in Leg /\ pending_leg'.at = Len(anchors) /\ pending_leg' # NoLeg
      /\ pending_leg'.transfer = next_leg_is_transfer
  BY <1>2 DEF IInv, TypeOK, Leg, NoLeg
<1>4. TypeOK'
  BY <1>3 DEF IInv, TypeOK, Stages
<1>5. Changes' = Changes /\ LegStarts' = LegStarts /\ Open' = Open
  BY DEF Changes, LegStarts, Open
<1>6. StageInv'
  BY <1>3, <1>5 DEF IInv, StageInv
<1>7. LegsInOrder' /\ TransfersAreChanges' /\ ReviewOnArrival'
  BY <1>3 DEF IInv, LegsInOrder, TransfersAreChanges, ReviewOnArrival, LooksLikeDestination
<1> QED BY <1>4, <1>6, <1>7 DEF IInv

LEMMA NameNextAnchorInv ==
  ASSUME IInv, NEW t \in Texts, NameNextAnchor(t)
  PROVE  IInv'
<1> USE DEF NameNextAnchor
<1>1. Strip[t] \in Texts /\ Strip[t] # NoText
  BY RecordingAssumption
<1>2. TypeOK'
  BY <1>1 DEF IInv, TypeOK, Stages
<1>3. Changes' = Changes /\ LegStarts' = LegStarts /\ Open' = Open
  BY DEF Changes, LegStarts, Open
<1>4. StageInv'
  BY <1>1, <1>3 DEF IInv, StageInv
<1>5. LegsInOrder' /\ TransfersAreChanges' /\ ReviewOnArrival'
  BY DEF IInv, LegsInOrder, TransfersAreChanges, ReviewOnArrival, LooksLikeDestination
<1> QED BY <1>2, <1>4, <1>5 DEF IInv

LEMMA ChangedVehicleInv ==
  ASSUME IInv, ChangedVehicle
  PROVE  IInv'
<1> USE DEF ChangedVehicle
<1>1. TypeOK'
  BY DEF IInv, TypeOK, Stages
<1>2. Changes' = Changes /\ LegStarts' = LegStarts /\ Open' = Open
  BY DEF Changes, LegStarts, Open
<1>3. StageInv'
  BY <1>2 DEF IInv, StageInv
<1>4. LegsInOrder' /\ TransfersAreChanges' /\ ReviewOnArrival'
  BY DEF IInv, StageInv, LegsInOrder, TransfersAreChanges, ReviewOnArrival, LooksLikeDestination
<1> QED BY <1>1, <1>3, <1>4 DEF IInv

LEMMA SameVehicleInv ==
  ASSUME IInv, SameVehicle
  PROVE  IInv'
<1> USE DEF SameVehicle
<1>1. anchors \in Seq(Anchor) /\ anchors # <<>> /\ Len(anchors) \in 1..Len(anchors)
  BY DEF IInv, TypeOK, StageInv, Open, Changes
<1>2. anchors' \in Seq(Anchor) /\ Len(anchors') = Len(anchors)
      /\ Changes' = Changes \ {Len(anchors)}
      /\ Last(anchors').name = Last(anchors).name
  BY <1>1, SameChanges DEF IInv
<1>3. TypeOK'
  BY <1>2 DEF IInv, TypeOK, Stages
<1>4. LegStarts' = LegStarts /\ Open' = {} /\ LegStarts' \subseteq Changes'
  BY <1>2 DEF IInv, StageInv, LegStarts, Open
<1>5. StageInv'
  BY <1>4 DEF IInv, StageInv
<1>6. LegsInOrder' /\ TransfersAreChanges' /\ ReviewOnArrival'
  BY <1>2 DEF IInv, StageInv, LegsInOrder, TransfersAreChanges, ReviewOnArrival, LooksLikeDestination
<1> QED BY <1>3, <1>5, <1>6 DEF IInv

\* Pinning a place on the way or at the destination, whatever stage follows.
LEMMA PinFacts ==
  ASSUME IInv, awaiting \in {"next_anchor_location", "destination_location"},
         anchors' = Pinned, legs' = Promoted
  PROVE  /\ anchors' \in Seq(Anchor) /\ legs' \in Seq(Leg) /\ legs' # <<>>
         /\ LegStarts' \subseteq Changes'
         /\ Len(anchors') \in Open'
         /\ Open' \subseteq {Len(anchors') - 1, Len(anchors')}
         /\ awaiting = "next_anchor_location" => Open' = {Len(anchors')}
         /\ LegsInOrder'
         /\ \A k \in DOMAIN legs' : legs'[k].transfer <=> k > 1
         /\ Last(anchors').name = pending_anchor_name
<1> DEFINE n == Len(anchors)
<1>1. anchors' \in Seq(Anchor) /\ legs' \in Seq(Leg)
  BY PinnedType, PromotedType DEF IInv, StageInv
<1>2. /\ n \in Nat /\ Changes \subseteq 1..n /\ LegStarts \subseteq Changes
      /\ Len(anchors') = n + 1 /\ Changes' = Changes \cup {n + 1}
      /\ LegStarts' = IF pending_leg = NoLeg THEN LegStarts ELSE LegStarts \cup {pending_leg.at}
  BY PinnedChanges, PromotedStarts DEF IInv, TypeOK, StageInv, Changes
<1>3. IF pending_leg = NoLeg THEN legs # <<>> /\ Open \subseteq {n}
                             ELSE pending_leg.at = n /\ Open = {n}
  BY DEF IInv, StageInv
<1>4. legs' # <<>>
  BY <1>3 DEF Promoted, IInv, TypeOK
<1>5. LegStarts' \subseteq Changes'
  BY <1>2, <1>3 DEF Open
<1>6. /\ n + 1 \in Open' /\ Open' \subseteq {n, n + 1}
      /\ awaiting = "next_anchor_location" => Open' = {n + 1}
  <2>1. n + 1 \notin LegStarts' /\ n + 1 \notin Changes
    BY <1>2, <1>3
  <2>2. CASE pending_leg = NoLeg
    <3>1. Open' = Open \cup {n + 1}
      BY <1>2, <2>1, <2>2 DEF Open
    <3>2. awaiting = "next_anchor_location" => Open = {}
      BY <2>2 DEF IInv, StageInv
    <3> QED BY <1>3, <2>2, <3>1, <3>2
  <2>3. CASE pending_leg # NoLeg
    <3>1. Open' = (Open \ {n}) \cup {n + 1}
      BY <1>2, <1>3, <2>1, <2>3 DEF Open
    <3> QED BY <1>3, <2>3, <3>1
  <2> QED BY <2>2, <2>3
<1>7. pending_leg # NoLeg => \A k \in DOMAIN legs : legs[k].at < pending_leg.at
  <2> SUFFICES ASSUME pending_leg # NoLeg, NEW k \in DOMAIN legs
               PROVE  legs[k].at < pending_leg.at
    OBVIOUS
  <2>1. legs[k].at \in LegStarts
    BY DEF LegStarts
  <2>2. n \in Open /\ pending_leg.at = n
    BY <1>3
  <2>3. legs[k].at \in 1..n /\ legs[k].at # n
    BY <1>2, <2>1, <2>2 DEF Open
  <2> QED BY <1>2, <2>2, <2>3
<1>8. LegsInOrder'
  BY <1>7, PromotedOrder DEF IInv
<1>9. \A k \in DOMAIN legs' : legs'[k].transfer <=> k > 1
  <2>1. CASE pending_leg = NoLeg
    BY <2>1 DEF Promoted, IInv, TransfersAreChanges
  <2>2. CASE pending_leg # NoLeg
    <3> DEFINE m == Len(legs)
    <3>1. legs' = Append(legs, pending_leg) /\ legs \in Seq(Leg) /\ m \in Nat
      BY <2>2 DEF Promoted, IInv, TypeOK
    <3>2. /\ DOMAIN legs = 1..m /\ DOMAIN legs' = 1..(m + 1)
          /\ \A k \in 1..m : legs'[k] = legs[k]
          /\ legs'[m + 1] = pending_leg
          /\ legs # <<>> <=> m > 0
      BY <3>1
    <3>3. /\ pending_leg.transfer <=> legs # <<>>
          /\ \A k \in DOMAIN legs : legs[k].transfer <=> k > 1
      BY <2>2 DEF IInv, TransfersAreChanges
    <3>4. ASSUME NEW k \in DOMAIN legs' PROVE legs'[k].transfer <=> k > 1
      <4>1. CASE k \in 1..m
        BY <3>2, <3>3, <4>1
      <4>2. CASE k = m + 1
        BY <3>1, <3>2, <3>3, <4>2
      <4> QED BY <3>1, <3>2, <4>1, <4>2
    <3> QED BY <3>4
  <2> QED BY <2>1, <2>2
<1>10. Last(anchors').name = pending_anchor_name
  BY <1>2 DEF Last, Pinned, IInv, TypeOK
<1> QED BY <1>1, <1>2, <1>4, <1>5, <1>6, <1>8, <1>9, <1>10

\* Arriving: the summary is shown, on the way or at the asked-for destination.
LEMMA SummaryInv ==
  ASSUME IInv, awaiting \in {"next_anchor_location", "destination_location"},
         LooksLikeDestination(pending_anchor_name),
         ShowSummary(Pinned, Promoted)
  PROVE  IInv'
<1>1. CASE BuildSegments(Pinned, Promoted) = <<>>
  BY <1>1, ClearInv DEF ShowSummary
<1>2. CASE BuildSegments(Pinned, Promoted) # <<>>
  <2>1. /\ awaiting' = "confirmation"
        /\ anchors' = Pinned /\ legs' = Promoted /\ pending_leg' = NoLeg
        /\ pending_anchor_name' = NoText
        /\ UNCHANGED <<destination_name, next_leg_is_transfer, filed>>
    BY <1>2 DEF ShowSummary
  <2>2. TypeOK'
    BY <2>1, PinFacts DEF IInv, TypeOK, Stages
  <2>3. StageInv'
    BY <2>1, PinFacts DEF IInv, StageInv
  <2>4. TransfersAreChanges'
    BY <2>1, PinFacts DEF IInv, TransfersAreChanges
  <2>5. ReviewOnArrival'
    BY <2>1, PinFacts DEF ReviewOnArrival, LooksLikeDestination
  <2> QED BY <2>1, <2>2, <2>3, <2>4, <2>5, PinFacts DEF IInv
<1> QED BY <1>1, <1>2

LEMMA PinNextAnchorInv ==
  ASSUME IInv, PinNextAnchor
  PROVE  IInv'
<1>1. CASE ~LooksLikeDestination(pending_anchor_name)
  <2>1. /\ awaiting = "next_anchor_location" /\ awaiting' = "transfer_decision"
        /\ anchors' = Pinned /\ legs' = Promoted /\ pending_leg' = NoLeg
        /\ pending_anchor_name' = NoText
        /\ UNCHANGED <<destination_name, next_leg_is_transfer, filed>>
    BY <1>1 DEF PinNextAnchor
  <2>2. TypeOK'
    BY <2>1, PinFacts DEF IInv, TypeOK, Stages
  <2>3. StageInv'
    BY <2>1, PinFacts DEF IInv, StageInv
  <2>4. TransfersAreChanges'
    BY <2>1, PinFacts DEF IInv, TransfersAreChanges
  <2>5. ReviewOnArrival'
    BY <1>1, <2>1, PinFacts DEF ReviewOnArrival, LooksLikeDestination
  <2> QED BY <2>1, <2>2, <2>3, <2>4, <2>5, PinFacts DEF IInv
<1>2. CASE LooksLikeDestination(pending_anchor_name)
  BY <1>2, SummaryInv DEF PinNextAnchor
<1> QED BY <1>1, <1>2

LEMMA PinDestinationInv ==
  ASSUME IInv, PinDestination
  PROVE  IInv'
<1>1. LooksLikeDestination(pending_anchor_name)
  BY DEF PinDestination, IInv, StageInv, LooksLikeDestination, SameName
<1> QED BY <1>1, SummaryInv DEF PinDestination

\* "end" before anything is worth keeping, and the ways to leave, reset all.
LEMMA LeaveInv ==
  ASSUME IInv, EndTooEarly \/ Confirm \/ Discard \/ Forget
  PROVE  IInv'
BY ClearInv DEF EndTooEarly, Confirm, Discard, Forget

\* "end" at the destination can only be an "end" at the confirmation prompt.
LEMMA EndAtDestinationInv ==
  ASSUME IInv, EndAtDestination
  PROVE  IInv'
<1> USE DEF EndAtDestination
<1>1. legs # <<>> /\ pending_leg = NoLeg /\ LooksLikeDestination(Last(anchors).name)
  BY DEF TooEarly, NeedsDestination
<1>2. awaiting = "confirmation"
  BY <1>1 DEF IInv, ReviewOnArrival
<1>3. CASE BuildSegments(anchors, legs) = <<>>
  BY <1>3, ClearInv DEF ShowSummary
<1>4. CASE BuildSegments(anchors, legs) # <<>>
  <2>1. /\ awaiting' = "confirmation"
        /\ pending_leg' = NoLeg /\ pending_anchor_name' = NoText
        /\ UNCHANGED <<anchors, legs, destination_name, next_leg_is_transfer, filed>>
    BY <1>4 DEF ShowSummary
  <2>2. TypeOK'
    BY <2>1 DEF IInv, TypeOK, Stages
  <2>3. Changes' = Changes /\ LegStarts' = LegStarts /\ Open' = Open
    BY <2>1 DEF Changes, LegStarts, Open
  <2>4. StageInv'
    BY <1>1, <1>2, <2>1, <2>3 DEF IInv, StageInv
  <2>5. LegsInOrder' /\ TransfersAreChanges'
    BY <1>1, <1>2, <2>1 DEF IInv, LegsInOrder, TransfersAreChanges
  <2>6. ReviewOnArrival'
    BY <1>1, <2>1 DEF ReviewOnArrival, LooksLikeDestination
  <2> QED BY <2>2, <2>4, <2>5, <2>6 DEF IInv
<1> QED BY <1>3, <1>4

\* "end" after "changed", before the new leg: the stage is leg_info already.
LEMMA EndBeforeLegInv ==
  ASSUME IInv, EndBeforeLeg
  PROVE  IInv'
<1> USE DEF EndBeforeLeg
<1>1. awaiting = "leg_info"
  BY DEF LegDue, IInv, TransfersAreChanges
<1>2. UNCHANGED vars
  BY <1>1 DEF vars
<1>3. TypeOK'
  BY <1>2 DEF vars, capture, IInv, TypeOK
<1>4. Changes' = Changes /\ LegStarts' = LegStarts /\ Open' = Open
  BY <1>2 DEF vars, capture, Changes, LegStarts, Open
<1>5. StageInv'
  BY <1>2, <1>4 DEF vars, capture, IInv, StageInv
<1>6. LegsInOrder' /\ TransfersAreChanges' /\ ReviewOnArrival'
  BY <1>2 DEF vars, capture, IInv, LegsInOrder, TransfersAreChanges, ReviewOnArrival,
              LooksLikeDestination
<1> QED BY <1>3, <1>5, <1>6 DEF IInv

LEMMA EndBeforeDestinationInv ==
  ASSUME IInv, EndBeforeDestination
  PROVE  IInv'
<1> USE DEF EndBeforeDestination
<1>1. /\ awaiting \in {"leg_info", "next_anchor_name", "next_anchor_location",
                       "transfer_decision", "destination_location", "confirmation"}
      /\ destination_name \in Texts /\ destination_name # NoText
  BY DEF IInv, TypeOK, Stages, StageInv, TooEarly
<1>2. awaiting # "confirmation"
  BY DEF NeedsDestination, IInv, StageInv, ReviewOnArrival
<1>3. awaiting # "leg_info"
  BY DEF LegDue, TooEarly, IInv, StageInv, TransfersAreChanges
<1>4. TypeOK'
  BY <1>1 DEF IInv, TypeOK, Stages
<1>5. Changes' = Changes /\ LegStarts' = LegStarts /\ Open' = Open
  BY DEF Changes, LegStarts, Open
<1>6. StageInv'
  BY <1>1, <1>2, <1>3, <1>5 DEF IInv, StageInv
<1>7. LegsInOrder' /\ TransfersAreChanges'
  BY <1>3 DEF IInv, LegsInOrder, TransfersAreChanges
<1>8. ReviewOnArrival'
  BY <1>2 DEF IInv, ReviewOnArrival, LooksLikeDestination
<1> QED BY <1>4, <1>6, <1>7, <1>8 DEF IInv

LEMMA StutterInv ==
  ASSUME IInv, UNCHANGED vars
  PROVE  IInv'
<1> USE DEF vars, capture
<1>1. Changes' = Changes /\ LegStarts' = LegStarts /\ Open' = Open
  BY DEF Changes, LegStarts, Open
<1>2. TypeOK'
  BY DEF IInv, TypeOK
<1>3. StageInv'
  BY <1>1 DEF IInv, StageInv
<1>4. LegsInOrder' /\ TransfersAreChanges' /\ ReviewOnArrival'
  BY DEF IInv, LegsInOrder, TransfersAreChanges, ReviewOnArrival, LooksLikeDestination
<1> QED BY <1>2, <1>3, <1>4 DEF IInv

LEMMA NextInv ==
  ASSUME IInv, [Next]_vars
  PROVE  IInv'
<1>1. CASE Start
  BY <1>1, StartInv
<1>2. ASSUME NEW t \in Texts, GiveDestination(t) PROVE IInv'
  BY <1>2, GiveDestinationInv
<1>3. ASSUME NEW t \in Texts, GiveOriginName(t) PROVE IInv'
  BY <1>3, GiveOriginNameInv
<1>4. ASSUME NEW t \in Texts, NameNextAnchor(t) PROVE IInv'
  BY <1>4, NameNextAnchorInv
<1>5. CASE PinOrigin
  BY <1>5, PinOriginInv
<1>6. CASE DescribeLeg
  BY <1>6, DescribeLegInv
<1>7. CASE PinNextAnchor
  BY <1>7, PinNextAnchorInv
<1>8. CASE PinDestination
  BY <1>8, PinDestinationInv
<1>9. CASE SameVehicle
  BY <1>9, SameVehicleInv
<1>10. CASE ChangedVehicle
  BY <1>10, ChangedVehicleInv
<1>11. CASE End
  <2>1. CASE EndNotRecording
    BY <2>1, StutterInv DEF EndNotRecording
  <2>2. CASE EndTooEarly
    BY <2>2, LeaveInv
  <2>3. CASE EndAtDestination
    BY <2>3, EndAtDestinationInv
  <2>4. CASE EndBeforeLeg
    BY <2>4, EndBeforeLegInv
  <2>5. CASE EndBeforeDestination
    BY <2>5, EndBeforeDestinationInv
  <2> QED BY <1>11, <2>1, <2>2, <2>3, <2>4, <2>5 DEF End
<1>12. CASE Confirm \/ Discard \/ Forget
  BY <1>12, LeaveInv
<1>13. CASE UNCHANGED vars
  BY <1>13, StutterInv
<1> QED BY <1>1, <1>2, <1>3, <1>4, <1>5, <1>6, <1>7, <1>8, <1>9, <1>10, <1>11, <1>12, <1>13 DEF Next

-----------------------------------------------------------------------------
(* The theorems                                                            *)

\* The inductive invariant holds in every reachable state.
LEMMA Invariance == Spec => []IInv
<1>1. Init => IInv
  BY InitInv
<1>2. IInv /\ [Next]_vars => IInv'
  BY NextInv
<1> QED BY <1>1, <1>2, PTL DEF Spec

\* RecordingState always has the shape its model class declares: the handlers
\* of the dialogue never store a None where a later stage reads a value.
THEOREM TypeCorrect == Spec => []TypeOK
<1>1. IInv => TypeOK
  BY DEF IInv
<1> QED BY <1>1, Invariance, PTL

\* Each stage handler finds what it relies on, for any sequence of replies,
\* "end"s and restarts, of any length.
THEOREM StagesCorrect == Spec => []StageInv
<1>1. IInv => StageInv
  BY DEF IInv
<1> QED BY <1>1, Invariance, PTL

LEMMA LegsPlaced == IInv => LegsOnTheirSegments
<1>1. ASSUME IInv PROVE LegsOnTheirSegments
  <2> DEFINE n == Len(anchors)
  <2>1. /\ n \in Nat /\ Changes \subseteq 1..n
        /\ LegStarts \subseteq Changes
        /\ \A k \in DOMAIN legs : legs[k].at \in LegStarts
    BY <1>1 DEF IInv, TypeOK, StageInv, Changes, LegStarts
  <2>2. Open \subseteq {n - 1, n} /\ (n - 1 \in Open /\ legs # <<>> => n \in Open)
    <3>1. CASE legs = <<>>
      BY <1>1, <3>1 DEF IInv, TypeOK, Stages, StageInv, Open, Changes
    <3>2. CASE legs # <<>>
      BY <1>1, <3>2 DEF IInv, TypeOK, Stages, StageInv
    <3> QED BY <3>1, <3>2
  <2>3. ASSUME NEW i \in Open, NEW k \in DOMAIN legs PROVE legs[k].at < i
    <3>1. legs[k].at \in 1..n /\ legs[k].at # i /\ i \in 1..n
      BY <2>1 DEF Open
    <3>2. legs # <<>>
      OBVIOUS
    <3>3. CASE i = n
      BY <2>1, <3>1, <3>3
    <3>4. CASE i = n - 1
      <4>1. n \in Open
        BY <2>2, <3>2, <3>4
      <4>2. legs[k].at # n
        BY <2>1, <4>1 DEF Open
      <4> QED BY <2>1, <3>1, <3>4, <4>2
    <3> QED BY <2>2, <3>3, <3>4
  <2>4. LegsInOrder
    BY <1>1 DEF IInv
  <2> QED BY <2>1, <2>3, <2>4 DEF LegsOnTheirSegments, LegsInOrder
<1> QED BY <1>1

\* However many anchors and legs a trip has, the k-th leg belongs to the k-th
\* change point, which is what _build_segments assumes when it pairs them.
THEOREM LegsCorrect == Spec => []LegsOnTheirSegments
BY LegsPlaced, Invariance, PTL

\* The transfer mark is on every leg but the first, for trips of any length.
THEOREM TransfersCorrect == Spec => []TransfersAreChanges
<1>1. IInv => TransfersAreChanges
  BY DEF IInv
<1> QED BY <1>1, Invariance, PTL

\* The contributor is asked to confirm exactly on arrival.
THEOREM ReviewCorrect == Spec => []ReviewOnArrival
<1>1. IInv => ReviewOnArrival
  BY DEF IInv
<1> QED BY <1>1, Invariance, PTL
-----------------------------------------------------------------------------
(* Nothing the contributor answered is undone while the recording is open  *)

Grows ==
  awaiting' # "idle" =>
    /\ Len(anchors) <= Len(anchors')
    /\ \A i \in DOMAIN anchors :
         anchors'[i] = anchors[i] \/ (i = Len(anchors) /\ awaiting = "transfer_decision"
                                      /\ anchors'[i].name = anchors[i].name)
    /\ legs' = legs \/ legs' = Append(legs, pending_leg)
    /\ pending_leg # NoLeg => pending_leg' = pending_leg \/ legs' # legs

\* A pin appends; the leg it completes, if one is pending, is appended too.
LEMMA PinGrows ==
  ASSUME TypeOK, anchors' = Pinned, legs' = Promoted
  PROVE  Grows
<1>1. /\ anchors \in Seq(Anchor) /\ Len(anchors) \in Nat /\ DOMAIN anchors = 1..Len(anchors)
      /\ legs \in Seq(Leg) /\ Len(legs) \in Nat
  BY DEF TypeOK
<1>2. Len(anchors') = Len(anchors) + 1 /\ \A i \in DOMAIN anchors : anchors'[i] = anchors[i]
  BY <1>1 DEF Pinned
<1>3. legs' = legs \/ legs' = Append(legs, pending_leg)
  BY DEF Promoted
<1>4. pending_leg # NoLeg => legs' # legs
  <2>1. Len(Append(legs, pending_leg)) # Len(legs)
    BY <1>1
  <2> QED BY <2>1 DEF Promoted
<1> QED BY <1>1, <1>2, <1>3, <1>4 DEF Grows

LEMMA ClearGrows ==
  ASSUME Clear
  PROVE  Grows
BY DEF Clear, Grows

LEMMA SummaryGrows ==
  ASSUME TypeOK, ShowSummary(Pinned, Promoted)
  PROVE  Grows
BY PinGrows, ClearGrows DEF ShowSummary

LEMMA StepGrows ==
  ASSUME IInv, Next
  PROVE  Grows
<1>1. /\ TypeOK
      /\ anchors \in Seq(Anchor) /\ Len(anchors) \in Nat /\ DOMAIN anchors = 1..Len(anchors)
  BY DEF IInv, TypeOK
<1>2. ASSUME UNCHANGED <<anchors, legs>>, pending_leg = NoLeg \/ UNCHANGED pending_leg
      PROVE  Grows
  BY <1>1, <1>2 DEF Grows
<1>3. CASE Start
  BY <1>2, <1>3 DEF Start, capture
<1>4. ASSUME NEW t \in Texts, GiveDestination(t) \/ GiveOriginName(t) \/ NameNextAnchor(t)
      PROVE  Grows
  BY <1>2, <1>4 DEF GiveDestination, GiveOriginName, NameNextAnchor
<1>5. CASE PinOrigin
  <2>1. pending_leg = NoLeg /\ legs' = Promoted /\ anchors' = Pinned
    BY <1>5 DEF PinOrigin, IInv, StageInv, Promoted
  <2> QED BY <1>1, <2>1, PinGrows
<1>6. CASE DescribeLeg
  <2>1. pending_leg = NoLeg
    BY <1>6 DEF DescribeLeg, IInv, StageInv
  <2> QED BY <1>2, <1>6, <2>1 DEF DescribeLeg
<1>7. CASE PinNextAnchor
  BY <1>1, <1>7, PinGrows, SummaryGrows DEF PinNextAnchor
<1>8. CASE PinDestination
  BY <1>1, <1>8, SummaryGrows DEF PinDestination
<1>9. CASE SameVehicle
  <2>1. /\ awaiting = "transfer_decision" /\ Len(anchors) \in 1..Len(anchors)
        /\ UNCHANGED <<legs, pending_leg>>
        /\ anchors' = [anchors EXCEPT ![Len(anchors)] = [name |-> @.name, is_passthrough |-> TRUE]]
    BY <1>9 DEF SameVehicle, IInv, TypeOK, StageInv, Open, Changes
  <2>2. \A i \in DOMAIN anchors :
          anchors'[i] = IF i = Len(anchors)
                        THEN [name |-> anchors[i].name, is_passthrough |-> TRUE] ELSE anchors[i]
    BY <1>1, <2>1
  <2>3. Len(anchors') = Len(anchors)
    BY <1>1, <2>1, SameChanges
  <2> QED BY <1>1, <2>1, <2>2, <2>3 DEF Grows
<1>10. CASE ChangedVehicle
  BY <1>2, <1>10 DEF ChangedVehicle
<1>11. CASE End
  <2>1. CASE EndNotRecording
    BY <1>2, <2>1 DEF EndNotRecording, vars, capture
  <2>2. CASE EndTooEarly
    BY <2>2, ClearGrows DEF EndTooEarly
  <2>3. CASE EndAtDestination
    BY <1>2, <2>3, ClearGrows DEF EndAtDestination, NeedsDestination, ShowSummary
  <2>4. CASE EndBeforeLeg
    BY <1>2, <2>4 DEF EndBeforeLeg, capture
  <2>5. CASE EndBeforeDestination
    BY <1>2, <2>5 DEF EndBeforeDestination
  <2> QED BY <1>11, <2>1, <2>2, <2>3, <2>4, <2>5 DEF End
<1>12. CASE Confirm \/ Discard \/ Forget
  BY <1>12, ClearGrows DEF Confirm, Discard, Forget
<1> QED BY <1>3, <1>4, <1>5, <1>6, <1>7, <1>8, <1>9, <1>10, <1>11, <1>12 DEF Next

\* No answer undoes an earlier one, whatever the trip's length: a described leg in
\* particular is never overwritten or dropped before it is promoted.
THEOREM CaptureGrows == Spec => CaptureOnlyGrows
<1>1. IInv /\ [Next]_vars => [Grows]_vars
  BY StepGrows
<1> QED BY <1>1, Invariance, PTL DEF Spec, CaptureOnlyGrows, Grows
-----------------------------------------------------------------------------
(* From a recording to a corridor: what BuildSegments pairs up             *)

Delimits(ps, i) == ~ps[i].is_passthrough \/ i = Len(ps)

LEMMA EndpointsList ==
  ASSUME NEW ps \in Seq(Anchor)
  PROVE  /\ Endpoints(ps) \in Seq(1..Len(ps))
         /\ Increasing(Endpoints(ps))
         /\ \A k \in DOMAIN Endpoints(ps) : Endpoints(ps)[k] \in DOMAIN ps /\ Delimits(ps, Endpoints(ps)[k])
         /\ \A i \in DOMAIN ps : Delimits(ps, i) => \E k \in DOMAIN Endpoints(ps) : Endpoints(ps)[k] = i
<1> DEFINE S == {i \in DOMAIN ps : ~ps[i].is_passthrough \/ i = Len(ps)}
<1>1. Len(ps) \in Nat /\ DOMAIN ps = 1..Len(ps)
  OBVIOUS
<1>2. Endpoints(ps) = InOrder(S, Len(ps))
  BY DEF Endpoints
<1>3. /\ Endpoints(ps) \in Seq(1..Len(ps))
      /\ Increasing(Endpoints(ps))
      /\ \A i \in S \cap (1..Len(ps)) : \E k \in DOMAIN Endpoints(ps) : Endpoints(ps)[k] = i
      /\ \A k \in DOMAIN Endpoints(ps) : Endpoints(ps)[k] \in S \cap (1..Len(ps))
  <2> HIDE DEF S
  <2> QED BY <1>1, <1>2, InOrderLists
<1> QED BY <1>1, <1>3 DEF Delimits

\* How many segments there are.
Count(ps, ls) == IF Len(ls) < Len(Endpoints(ps)) - 1 THEN Len(ls) ELSE Len(Endpoints(ps)) - 1

LEMMA CountPositive ==
  ASSUME NEW l \in Nat, l > 0, NEW m \in Nat, m >= 2
  PROVE  (IF l < m - 1 THEN l ELSE m - 1) \in Nat \ {0}
OBVIOUS

LEMMA CountBounds ==
  ASSUME NEW l \in Nat, NEW m \in Nat
  PROVE  LET c == IF l < m - 1 THEN l ELSE m - 1 IN c <= l /\ c <= m - 1 /\ c \in Int
OBVIOUS

\* The trip leads somewhere: a vehicle was boarded before the last place.
Leads(ps) == \E i \in DOMAIN ps : ~ps[i].is_passthrough /\ i < Len(ps)

\* Of a trip that leads somewhere every leg makes a segment, to the last change.
LEMMA SegmentsExist ==
  ASSUME NEW ps \in Seq(Anchor), NEW ls \in Seq(Leg), ls # <<>>, Leads(ps)
  PROVE  /\ Len(ps) >= 2 /\ Count(ps, ls) \in Nat \ {0}
         /\ DOMAIN BuildSegments(ps, ls) = 1..Count(ps, ls)
         /\ BuildSegments(ps, ls) # <<>>
<1> DEFINE e == Endpoints(ps)
<1>1. /\ Len(ps) \in Nat /\ DOMAIN ps = 1..Len(ps) /\ Len(ps) >= 2
      /\ Len(ls) \in Nat /\ Len(ls) > 0
  BY DEF Leads
<1>2. /\ e \in Seq(1..Len(ps))
      /\ \A x \in DOMAIN ps : Delimits(ps, x) => \E k \in DOMAIN e : e[k] = x
  BY EndpointsList
<1> HIDE DEF e
<1>3. PICK j \in DOMAIN e : e[j] < Len(ps)
  BY <1>2 DEF Delimits, Leads
<1>4. PICK k \in DOMAIN e : e[k] = Len(ps)
  <2>1. Len(ps) \in DOMAIN ps /\ Delimits(ps, Len(ps))
    BY <1>1 DEF Delimits
  <2> QED BY <1>2, <2>1
<1>5. Len(e) >= 2
  <2>1. j # k
    BY <1>1, <1>3, <1>4
  <2>2. Len(e) \in Nat /\ DOMAIN e = 1..Len(e)
    BY <1>2
  <2> QED BY <2>1, <2>2
<1>6. Count(ps, ls) \in Nat \ {0}
  <2>1. Len(e) \in Nat
    BY <1>2
  <2> QED BY <1>1, <1>5, <2>1, CountPositive DEF Count, e
<1>7. DOMAIN BuildSegments(ps, ls) = 1..Count(ps, ls)
  BY <1>1 DEF BuildSegments, Count
<1>8. BuildSegments(ps, ls) # <<>>
  BY <1>6, <1>7
<1> QED BY <1>1, <1>6, <1>7, <1>8

\* The trip as it stands when a location is due that may complete it.
LEMMA PinnedTrip ==
  ASSUME IInv, awaiting \in {"next_anchor_location", "destination_location"}
  PROVE  /\ Pinned \in Seq(Anchor) /\ Promoted \in Seq(Leg) /\ Promoted # <<>>
         /\ Leads(Pinned)
<1> DEFINE n == Len(anchors)
<1>1. Pinned \in Seq(Anchor) /\ Promoted \in Seq(Leg)
  BY PinnedType, PromotedType DEF IInv, StageInv
<1>2. /\ anchors \in Seq(Anchor) /\ n \in Nat /\ DOMAIN anchors = 1..n
      /\ Len(Pinned) = n + 1 /\ DOMAIN Pinned = 1..(n + 1)
      /\ \A i \in 1..n : Pinned[i] = anchors[i]
  BY DEF Pinned, IInv, TypeOK
<1>3. /\ IF pending_leg = NoLeg THEN legs # <<>> /\ Open \subseteq {n} ELSE Open = {n}
      /\ LegStarts \subseteq Changes
  BY DEF IInv, StageInv
<1>4. Promoted # <<>>
  BY <1>3 DEF Promoted, IInv, TypeOK
<1>5. Changes # {}
  <2>1. CASE pending_leg = NoLeg
    <3>1. 1 \in DOMAIN legs
      BY <1>3, <2>1 DEF IInv, TypeOK
    <3>2. legs[1].at \in LegStarts
      BY <3>1 DEF LegStarts
    <3> QED BY <1>3, <3>2
  <2>2. CASE pending_leg # NoLeg
    BY <1>3, <2>2 DEF Open
  <2> QED BY <2>1, <2>2
<1>6. PICK i \in Changes : TRUE
  BY <1>5
<1>7. Leads(Pinned)
  BY <1>2, <1>6 DEF Changes, Leads
<1> QED BY <1>1, <1>4, <1>7

\* However a trip got to its last location, sharing it leads to a summary with a
\* segment: _show_summary_and_confirm never drops the recording as too short.
THEOREM PinningKeeps == Spec => []PinningNeverDiscards
<1>1. ASSUME IInv PROVE PinningNeverDiscards
  BY <1>1, PinnedTrip, SegmentsExist DEF PinningNeverDiscards
<1> QED BY <1>1, Invariance, PTL
-----------------------------------------------------------------------------
(* What is shown for review can be filed                                   *)

\* The k-th segment runs between two consecutive delimiting anchors.
LEMMA SegmentShape ==
  ASSUME NEW ps \in Seq(Anchor), NEW ls \in Seq(Leg), NEW k \in DOMAIN BuildSegments(ps, ls)
  PROVE  LET e == Endpoints(ps) IN
         /\ k \in DOMAIN ls
         /\ k \in DOMAIN e /\ k + 1 \in DOMAIN e
         /\ e[k] \in DOMAIN ps /\ e[k + 1] \in DOMAIN ps /\ e[k] < e[k + 1]
         /\ BuildSegments(ps, ls)[k] =
              [from_anchor  |-> ps[e[k]].name,
               to_anchor    |-> ps[e[k + 1]].name,
               passthroughs |-> [j \in 1..(e[k + 1] - e[k] - 1) |-> ps[e[k] + j].name],
               leg          |-> ls[k]]
<1> DEFINE e == Endpoints(ps)
           c == Count(ps, ls)
<1>1. /\ e \in Seq(1..Len(ps)) /\ Increasing(e)
      /\ \A i \in DOMAIN e : e[i] \in DOMAIN ps
  BY EndpointsList
<1>2. /\ BuildSegments(ps, ls) # <<>>
      /\ ~(Len(ps) < 2 \/ ls = <<>>)
  BY DEF BuildSegments
<1>3. /\ k \in 1..c
      /\ BuildSegments(ps, ls)[k] =
           [from_anchor  |-> ps[e[k]].name,
            to_anchor    |-> ps[e[k + 1]].name,
            passthroughs |-> [j \in 1..(e[k + 1] - e[k] - 1) |-> ps[e[k] + j].name],
            leg          |-> ls[k]]
  BY <1>2 DEF BuildSegments, Count
<1>4. c <= Len(ls) /\ c <= Len(e) - 1 /\ c \in Int
  <2> HIDE DEF e
  <2>1. Len(e) \in Nat /\ Len(ls) \in Nat
    BY <1>1
  <2> QED BY <2>1, CountBounds DEF Count, e
<1> HIDE DEF c
<1>5. k \in DOMAIN ls /\ k \in DOMAIN e /\ k + 1 \in DOMAIN e
  <2> HIDE DEF e
  <2>1. DOMAIN e = 1..Len(e) /\ Len(e) \in Nat
    BY <1>1
  <2>2. DOMAIN ls = 1..Len(ls) /\ Len(ls) \in Nat
    OBVIOUS
  <2> QED BY <1>3, <1>4, <2>1, <2>2
<1>6. e[k] < e[k + 1]
  <2>1. k < k + 1
    BY <1>3
  <2> HIDE DEF e
  <2> QED BY <1>1, <1>5, <2>1 DEF Increasing
<1> QED BY <1>1, <1>3, <1>5, <1>6

Distinct(ps) == \A i, j \in DOMAIN ps : SameName(ps[i].name, ps[j].name) => i = j

\* Where no place was named twice, cross_validate leaves every name as it was.
LEMMA CanonicalKeeps ==
  ASSUME NEW ps \in Seq(Anchor), Distinct(ps), NEW i \in DOMAIN ps
  PROVE  Canonical(ps, ps[i].name) = ps[i].name
<1> DEFINE IsIt(x) == /\ SameName(ps[x].name, ps[i].name)
                      /\ \A j \in (x + 1)..Len(ps) : ~SameName(ps[j].name, ps[i].name)
<1>1. /\ Len(ps) \in Nat /\ DOMAIN ps = 1..Len(ps)
      /\ \A x \in DOMAIN ps : IsIt(x) => x = i
  BY DEF Distinct
<1>2. IsIt(i)
  <2>1. ASSUME NEW j \in (i + 1)..Len(ps) PROVE j \in DOMAIN ps /\ j # i
    BY <1>1
  <2> QED BY <2>1 DEF Distinct, SameName
<1>3. Canonical(ps, ps[i].name) = ps[CHOOSE x \in DOMAIN ps : IsIt(x)].name
  BY DEF Canonical
<1> HIDE DEF IsIt
<1>4. (CHOOSE x \in DOMAIN ps : IsIt(x)) = i
  BY <1>1, <1>2
<1> QED BY <1>3, <1>4

\* Of such a trip every segment passes the checks on its places.
LEMMA SegmentsPass ==
  ASSUME NEW ps \in Seq(Anchor), NEW ls \in Seq(Leg), NEW dest, Distinct(ps),
         NEW k \in DOMAIN Corridor(ps, ls, dest).segments
  PROVE  LET s == Corridor(ps, ls, dest).segments[k] IN
         /\ s.from_anchor # s.to_anchor
         /\ \A p \in DOMAIN s.passthroughs : s.passthroughs[p] \notin {s.from_anchor, s.to_anchor}
<1> DEFINE b == BuildSegments(ps, ls)[k]
           s == Corridor(ps, ls, dest).segments[k]
           e == Endpoints(ps)
<1>1. k \in DOMAIN BuildSegments(ps, ls) /\ s = CanonicalSegment(ps, b)
  BY DEF Corridor
<1>2. /\ e[k] \in DOMAIN ps /\ e[k + 1] \in DOMAIN ps /\ e[k] < e[k + 1]
      /\ b = [from_anchor  |-> ps[e[k]].name,
              to_anchor    |-> ps[e[k + 1]].name,
              passthroughs |-> [j \in 1..(e[k + 1] - e[k] - 1) |-> ps[e[k] + j].name],
              leg          |-> ls[k]]
  BY <1>1, SegmentShape
<1>3. /\ s.from_anchor = Canonical(ps, ps[e[k]].name)
      /\ s.to_anchor = Canonical(ps, ps[e[k + 1]].name)
      /\ s.passthroughs = [j \in 1..(e[k + 1] - e[k] - 1) |-> Canonical(ps, ps[e[k] + j].name)]
  BY <1>1, <1>2 DEF CanonicalSegment
<1> HIDE DEF b, s, e
<1>4. s.from_anchor = ps[e[k]].name /\ s.to_anchor = ps[e[k + 1]].name
  BY <1>2, <1>3, CanonicalKeeps
<1>5. s.from_anchor # s.to_anchor
  <2>1. e[k] # e[k + 1]
    BY <1>2
  <2> QED BY <1>2, <1>4, <2>1 DEF Distinct, SameName
<1>6. ASSUME NEW p \in DOMAIN s.passthroughs
      PROVE  s.passthroughs[p] \notin {s.from_anchor, s.to_anchor}
  <2>1. p \in 1..(e[k + 1] - e[k] - 1) /\ s.passthroughs[p] = Canonical(ps, ps[e[k] + p].name)
    BY <1>3
  <2>2. e[k] + p \in DOMAIN ps /\ e[k] + p # e[k] /\ e[k] + p # e[k + 1]
    <3>1. e[k] \in 1..Len(ps) /\ e[k + 1] \in 1..Len(ps) /\ Len(ps) \in Nat /\ DOMAIN ps = 1..Len(ps)
      BY <1>2
    <3> QED BY <2>1, <3>1
  <2>3. s.passthroughs[p] = ps[e[k] + p].name
    BY <2>1, <2>2, CanonicalKeeps
  <2> QED BY <1>2, <1>4, <2>2, <2>3 DEF Distinct, SameName
<1> QED BY <1>5, <1>6 DEF s

\* A review that opens can be filed, unless a name is too long or a place was named
\* twice: cross_validate finds nothing that the contributor could not have fixed.
THEOREM ReviewFileable == Spec => []ReviewIsFileable
<1>1. ASSUME IInv PROVE ReviewIsFileable
  <2>1. SUFFICES ASSUME awaiting = "confirmation", destination_name \notin Long,
                        \A i \in DOMAIN anchors : anchors[i].name \notin Long,
                        Distinct(anchors)
                 PROVE  Valid(anchors, legs, destination_name)
    BY DEF ReviewIsFileable, Distinct
  <2>2. /\ anchors \in Seq(Anchor) /\ legs \in Seq(Leg)
        /\ legs # <<>> /\ Len(anchors) \in DOMAIN anchors
    BY <1>1, <2>1 DEF IInv, TypeOK, StageInv, Open, Changes
  <2>3. \A i, j \in DOMAIN anchors : anchors[i].name = anchors[j].name => i = j
    BY <2>1 DEF Distinct, SameName
  <2>4. SameName(anchors[Len(anchors)].name, destination_name)
    BY <1>1, <2>1, <2>2 DEF IInv, ReviewOnArrival, LooksLikeDestination, Last
  <2>5. \A k \in DOMAIN Corridor(anchors, legs, destination_name).segments :
          LET s == Corridor(anchors, legs, destination_name).segments[k] IN
          /\ s.from_anchor # s.to_anchor
          /\ \A p \in DOMAIN s.passthroughs : s.passthroughs[p] \notin {s.from_anchor, s.to_anchor}
    BY <2>1, <2>2, SegmentsPass
  <2> QED BY <2>1, <2>2, <2>3, <2>4, <2>5 DEF Valid
<1> QED BY <1>1, Invariance, PTL
-----------------------------------------------------------------------------
(* The dialogue implements Contribution                                    *)

\* The state of Contribution that a state of the dialogue stands for.
Phase == CASE awaiting = "idle" -> "idle"
           [] awaiting = "confirmation" -> "review"
           [] OTHER -> "capturing"

Trail == Folded([i \in DOMAIN anchors |-> anchors[i].name])

Walks == [i \in DOMAIN filed |-> Folded(Walk(filed[i].segments))]

\* A trip starts where a vehicle is boarded, and filed is a list.
Corridors == {Corridor(ps, ls, d) : ps \in Seq(Anchor), ls \in Seq(Leg), d \in Texts}

OriginInv == anchors # <<>> => ~anchors[1].is_passthrough

RInv == IInv /\ OriginInv /\ filed \in Seq(Corridors)

LEMMA FiledGrows ==
  ASSUME IInv, filed \in Seq(Corridors), Next
  PROVE  filed' \in Seq(Corridors)
<1>1. CASE UNCHANGED filed
  BY <1>1
<1>2. CASE Confirm
  <2>1. anchors \in Seq(Anchor) /\ legs \in Seq(Leg) /\ destination_name \in Texts
    BY <1>2 DEF Confirm, IInv, TypeOK, StageInv
  <2>2. Corridor(anchors, legs, destination_name) \in Corridors
    BY <2>1 DEF Corridors
  <2> QED BY <1>2, <2>2 DEF Confirm
<1>3. ASSUME Next, ~Confirm PROVE UNCHANGED filed
  BY <1>3 DEF Next, Start, GiveDestination, GiveOriginName, NameNextAnchor, PinOrigin, DescribeLeg,
              PinNextAnchor, PinDestination, SameVehicle, ChangedVehicle, End, EndNotRecording,
              EndTooEarly, EndAtDestination, EndBeforeLeg, EndBeforeDestination, Discard, Forget,
              ShowSummary, vars
<1> QED BY <1>1, <1>2, <1>3

\* The question "same vehicle?" is never about the origin.
LEMMA NotTheOrigin ==
  ASSUME IInv, awaiting = "transfer_decision"
  PROVE  Len(anchors) > 1
<1>1. /\ legs \in Seq(Leg) /\ legs # <<>> /\ 1 \in DOMAIN legs
      /\ Open = {Len(anchors)} /\ LegStarts \subseteq Changes
  BY DEF IInv, TypeOK, StageInv
<1>2. legs[1].at \in Changes /\ legs[1].at # Len(anchors)
  BY <1>1 DEF LegStarts, Open
<1> QED BY <1>1, <1>2 DEF Changes, IInv, TypeOK

LEMMA OriginStays ==
  ASSUME IInv, OriginInv, Next
  PROVE  OriginInv'
<1>1. IInv' /\ Grows
  BY NextInv, StepGrows
<1>2. /\ anchors \in Seq(Anchor) /\ Len(anchors) \in Nat /\ DOMAIN anchors = 1..Len(anchors)
  BY DEF IInv, TypeOK
<1>3. CASE awaiting' = "idle"
  BY <1>1, <1>3 DEF IInv, StageInv, OriginInv
<1>4. CASE awaiting' # "idle" /\ anchors # <<>>
  <2>1. 1 \in DOMAIN anchors
    BY <1>2, <1>4
  <2>2. anchors'[1] = anchors[1]
    BY <1>1, <1>4, <2>1, NotTheOrigin DEF Grows
  <2> QED BY <1>4, <2>2 DEF OriginInv
<1>5. CASE awaiting' # "idle" /\ anchors = <<>>
  <2>1. CASE anchors' = anchors
    BY <2>1 DEF OriginInv
  <2>2. CASE PinOrigin
    <3>1. anchors' = <<[name |-> pending_anchor_name, is_passthrough |-> FALSE]>>
      BY <1>5, <2>2 DEF PinOrigin, Pinned
    <3> QED BY <3>1 DEF OriginInv
  <2>3. ASSUME PinNextAnchor \/ PinDestination \/ SameVehicle PROVE FALSE
    <3>1. Changes = {} /\ LegStarts \subseteq Changes /\ Open = {}
      BY <1>5 DEF IInv, StageInv, Changes, Open
    <3>2. legs # <<>> => LegStarts # {}
      <4>1. legs # <<>> => 1 \in DOMAIN legs
        BY DEF IInv, TypeOK
      <4> QED BY <4>1 DEF LegStarts
    <3> QED BY <2>3, <3>1, <3>2 DEF PinNextAnchor, PinDestination, SameVehicle, IInv, StageInv
  <2>4. ASSUME Next, ~PinOrigin, ~PinNextAnchor, ~PinDestination, ~SameVehicle
        PROVE  anchors' = anchors
    BY <1>5, <2>4 DEF Next, Start, GiveDestination, GiveOriginName, NameNextAnchor, DescribeLeg,
                ChangedVehicle, End, EndNotRecording, EndTooEarly, EndAtDestination, EndBeforeLeg,
                EndBeforeDestination, Confirm, Discard, Forget, ShowSummary, Clear, vars, capture
  <2> QED BY <2>1, <2>2, <2>3, <2>4
<1> QED BY <1>3, <1>4, <1>5

LEMMA RefinementInvariance == Spec => []RInv
<1>1. Init => RInv
  BY InitInv DEF RInv, Init, OriginInv
<1>2. RInv /\ [Next]_vars => RInv'
  <2>1. ASSUME RInv, Next PROVE RInv'
    BY <2>1, NextInv, FiledGrows, OriginStays DEF RInv
  <2>2. ASSUME RInv, UNCHANGED vars PROVE RInv'
    BY <2>2, StutterInv DEF RInv, vars, capture, OriginInv
  <2> QED BY <2>1, <2>2
<1> QED BY <1>1, <1>2, PTL DEF Spec

\* Whatever anchor's name a name is made canonical by, case aside it is the same.
LEMMA CanonicalFolds ==
  ASSUME NEW ps \in Seq(Anchor), NEW i \in DOMAIN ps
  PROVE  /\ Canonical(ps, ps[i].name) \in Texts
         /\ Lower[Canonical(ps, ps[i].name)] = Lower[ps[i].name]
<1> DEFINE S == {x \in DOMAIN ps : SameName(ps[x].name, ps[i].name)}
           IsIt(x) == /\ SameName(ps[x].name, ps[i].name)
                      /\ \A j \in (x + 1)..Len(ps) : ~SameName(ps[j].name, ps[i].name)
           it == CHOOSE x \in DOMAIN ps : IsIt(x)
<1>1. Len(ps) \in Nat /\ DOMAIN ps = 1..Len(ps)
  OBVIOUS
<1>2. S \in SUBSET (0..Len(ps)) /\ i \in S
  BY <1>1 DEF SameName
<1>3. PICK x \in S : \A y \in S : y <= x
  <2> HIDE DEF S
  <2> QED BY <1>1, <1>2, Greatest
<1>4. ASSUME NEW j \in (x + 1)..Len(ps) PROVE ~SameName(ps[j].name, ps[i].name)
  <2>1. j \in DOMAIN ps /\ ~(j <= x)
    BY <1>1, <1>3
  <2> QED BY <1>3, <2>1
<1>5. x \in DOMAIN ps /\ IsIt(x)
  BY <1>3, <1>4
<1>6. it \in DOMAIN ps /\ IsIt(it)
  <2> HIDE DEF IsIt
  <2> QED BY <1>5
<1>7. Canonical(ps, ps[i].name) = ps[it].name
  BY DEF Canonical
<1> HIDE DEF it
<1>8. ps[it] \in Anchor
  BY <1>6
<1> QED BY <1>6, <1>7, <1>8 DEF SameName, Anchor

LEMMA GapBetween ==
  ASSUME NEW a \in Nat, NEW b \in Nat, a < b
  PROVE  LET m == b - a - 1 IN m \in Nat /\ b = a + (m + 1) /\ b - a = m + 1
OBVIOUS

\* s holds, case aside, the names of the n anchors after the a-th.
Follow(s, ps, a, n) == Len(s) = n /\ \A j \in 1..n : Lower[s[j]] = Lower[ps[a + j].name]

\* The places of the k-th segment after its first are the anchors pinned there.
LEMMA SegmentPlaces ==
  ASSUME NEW ps \in Seq(Anchor), NEW ls \in Seq(Leg), NEW dest,
         NEW k \in DOMAIN BuildSegments(ps, ls)
  PROVE  LET e == Endpoints(ps)
             s == Corridor(ps, ls, dest).segments[k]
             part == Append(s.passthroughs, s.to_anchor)
         IN /\ s.from_anchor \in Texts /\ Lower[s.from_anchor] = Lower[ps[e[k]].name]
            /\ part \in Seq(Texts) /\ Follow(part, ps, e[k], e[k + 1] - e[k])
<1> DEFINE b == BuildSegments(ps, ls)[k]
           s == Corridor(ps, ls, dest).segments[k]
           e == Endpoints(ps)
           m == e[k + 1] - e[k] - 1
           part == Append(s.passthroughs, s.to_anchor)
<1>1. s = CanonicalSegment(ps, b)
  BY DEF Corridor
<1>2. /\ e[k] \in DOMAIN ps /\ e[k + 1] \in DOMAIN ps /\ e[k] < e[k + 1]
      /\ b = [from_anchor  |-> ps[e[k]].name,
              to_anchor    |-> ps[e[k + 1]].name,
              passthroughs |-> [j \in 1..m |-> ps[e[k] + j].name],
              leg          |-> ls[k]]
  BY SegmentShape
<1>3. /\ s.from_anchor = Canonical(ps, ps[e[k]].name)
      /\ s.to_anchor = Canonical(ps, ps[e[k + 1]].name)
      /\ s.passthroughs = [j \in 1..m |-> Canonical(ps, ps[e[k] + j].name)]
  BY <1>1, <1>2 DEF CanonicalSegment
<1> HIDE DEF b, s, e
<1>4. /\ Len(ps) \in Nat /\ DOMAIN ps = 1..Len(ps)
      /\ e[k] \in Nat /\ e[k + 1] \in Nat /\ m \in Nat
      /\ e[k + 1] = e[k] + (m + 1) /\ e[k + 1] - e[k] = m + 1
  <2>1. Len(ps) \in Nat /\ DOMAIN ps = 1..Len(ps)
    OBVIOUS
  <2>2. e[k] \in Nat /\ e[k + 1] \in Nat
    BY <1>2, <2>1
  <2> QED BY <1>2, <2>1, <2>2, GapBetween
<1> HIDE DEF m
<1>5. ASSUME NEW j \in 1..(m + 1)
      PROVE  /\ e[k] + j \in DOMAIN ps
             /\ Canonical(ps, ps[e[k] + j].name) \in Texts
             /\ Lower[Canonical(ps, ps[e[k] + j].name)] = Lower[ps[e[k] + j].name]
  <2>1. e[k] + j \in DOMAIN ps
    BY <1>2, <1>4
  <2> QED BY <2>1, CanonicalFolds
<1>6. s.passthroughs \in Seq(Texts) /\ Len(s.passthroughs) = m
  <2>1. \A j \in 1..m : Canonical(ps, ps[e[k] + j].name) \in Texts
    BY <1>4, <1>5
  <2> DEFINE v == s.passthroughs
  <2>2. v = [j \in 1..m |-> v[j]] /\ \A j \in 1..m : v[j] \in Texts
    BY <1>3, <2>1
  <2> HIDE DEF v
  <2>3. v \in Seq(Texts) /\ Len(v) = m
    BY <1>4, <2>2, SeqByElements
  <2> QED BY <2>3 DEF v
<1>7. s.to_anchor \in Texts /\ Lower[s.to_anchor] = Lower[ps[e[k] + (m + 1)].name]
  BY <1>2, <1>3, <1>4, CanonicalFolds
<1>8. /\ part \in Seq(Texts) /\ Len(part) = m + 1
      /\ \A j \in 1..m : part[j] = s.passthroughs[j]
      /\ part[m + 1] = s.to_anchor
  BY <1>4, <1>6, <1>7, AppendOne
<1> HIDE DEF part
<1>9. ASSUME NEW j \in 1..(m + 1) PROVE Lower[part[j]] = Lower[ps[e[k] + j].name]
  <2>1. CASE j = m + 1
    BY <1>7, <1>8, <2>1
  <2>2. CASE j # m + 1
    <3>1. j \in 1..m
      BY <1>4, <2>2
    <3>2. part[j] = Canonical(ps, ps[e[k] + j].name)
      BY <1>3, <1>8, <3>1
    <3> QED BY <1>5, <3>2
  <2> QED BY <2>1, <2>2
<1>10. s.from_anchor \in Texts /\ Lower[s.from_anchor] = Lower[ps[e[k]].name]
  BY <1>2, <1>3, CanonicalFolds
<1>11. Follow(part, ps, e[k], e[k + 1] - e[k])
  BY <1>4, <1>8, <1>9 DEF Follow
<1> QED BY <1>8, <1>10, <1>11 DEF s, e, part

\* The trail of a trip, up to its n-th place.
Path(ps, n) == [i \in 1..n |-> Lower[ps[i].name]]

LEMMA ConcatTwo ==
  ASSUME NEW T, NEW s \in Seq(T), NEW t \in Seq(T)
  PROVE  /\ s \o t \in Seq(T) /\ Len(s \o t) = Len(s) + Len(t)
         /\ \A j \in 1..Len(s) : (s \o t)[j] = s[j]
         /\ \A j \in (Len(s) + 1)..(Len(s) + Len(t)) : (s \o t)[j] = t[j - Len(s)]
OBVIOUS

\* One more segment takes the walk to the next delimiting anchor.
LEMMA WalkStep ==
  ASSUME NEW ps \in Seq(Anchor), NEW s \in Seq(Texts), NEW t \in Seq(Texts),
         NEW a \in Nat, NEW b \in Nat, 1 <= a, a < b,
         Follow(s, ps, 1, a - 1), Follow(t, ps, a, b - a)
  PROVE  Follow(s \o t, ps, 1, b - 1)
<1> USE DEF Follow
<1>1. /\ s \o t \in Seq(Texts) /\ Len(s \o t) = Len(s) + Len(t)
      /\ \A j \in 1..Len(s) : (s \o t)[j] = s[j]
      /\ \A j \in (Len(s) + 1)..(Len(s) + Len(t)) : (s \o t)[j] = t[j - Len(s)]
  BY ConcatTwo
<1>2. Len(s \o t) = b - 1
  <2>1. (a - 1) + (b - a) = b - 1
    OBVIOUS
  <2> QED BY <1>1, <2>1
<1>3. ASSUME NEW j \in 1..(b - 1) PROVE Lower[(s \o t)[j]] = Lower[ps[1 + j].name]
  <2>1. CASE j <= a - 1
    <3>1. j \in 1..(a - 1)
      BY <2>1
    <3> QED BY <1>1, <3>1
  <2>2. CASE j > a - 1
    <3>1. /\ j \in a..(b - 1) /\ j - (a - 1) \in 1..(b - a)
          /\ (a - 1) + 1 = a /\ (a - 1) + (b - a) = b - 1 /\ a + (j - (a - 1)) = 1 + j
      BY <2>2
    <3>2. (s \o t)[j] = t[j - (a - 1)]
      BY <1>1, <3>1
    <3>3. Lower[t[j - (a - 1)]] = Lower[ps[a + (j - (a - 1))].name]
      BY <3>1
    <3> QED BY <3>1, <3>2, <3>3
  <2> QED BY <2>1, <2>2
<1> QED BY <1>1, <1>2, <1>3

\* The walk of a corridor is the trail up to where its last segment ends.
LEMMA WalkIsPath ==
  ASSUME NEW ps \in Seq(Anchor), NEW ls \in Seq(Leg), NEW dest,
         BuildSegments(ps, ls) # <<>>, ~ps[1].is_passthrough
  PROVE  LET e == Endpoints(ps)
             c == Count(ps, ls)
         IN /\ c \in Nat \ {0} /\ c + 1 \in DOMAIN e /\ e[1] = 1 /\ 1 < e[c + 1]
            /\ Folded(Walk(Corridor(ps, ls, dest).segments)) = Path(ps, e[c + 1])
<1> DEFINE e == Endpoints(ps)
           c == Count(ps, ls)
           segs == Corridor(ps, ls, dest).segments
           parts == [k \in DOMAIN segs |-> Append(segs[k].passthroughs, segs[k].to_anchor)]
<1>1. /\ DOMAIN segs = 1..c /\ DOMAIN BuildSegments(ps, ls) = 1..c
      /\ Len(ps) >= 2 /\ ls # <<>>
  BY DEF BuildSegments, Corridor, Count
<1>2. e \in Seq(1..Len(ps)) /\ Increasing(e) /\ \E k \in DOMAIN e : e[k] = 1
  <2>1. Len(ps) \in Nat /\ 1 \in DOMAIN ps /\ Delimits(ps, 1)
    BY <1>1 DEF Delimits
  <2> QED BY <2>1, EndpointsList
<1>3. c \in Nat \ {0}
  <2>1. c \in Int
    <3>1. Len(e) \in Nat
      <4> HIDE DEF e
      <4> QED BY <1>2
    <3>2. Len(ls) \in Nat
      OBVIOUS
    <3> QED BY <3>1, <3>2, CountBounds DEF Count
  <2>2. c > 0
    <3>1. SUFFICES ASSUME ~(c > 0) PROVE FALSE
      OBVIOUS
    <3> HIDE DEF c, e, segs
    <3>2. DOMAIN BuildSegments(ps, ls) = {}
      BY <1>1, <2>1, <3>1
    <3>3. BuildSegments(ps, ls) = [k \in 1..c |-> BuildSegments(ps, ls)[k]]
      BY <1>1 DEF BuildSegments
    <3> QED BY <1>1, <3>2, <3>3
  <2> HIDE DEF c
  <2> QED BY <2>1, <2>2
<1>4. ASSUME NEW k \in 1..c
      PROVE  /\ k \in DOMAIN e /\ k + 1 \in DOMAIN e
             /\ e[k] \in Nat /\ e[k + 1] \in Nat /\ 1 <= e[k] /\ e[k] < e[k + 1]
             /\ segs[k].from_anchor \in Texts /\ Lower[segs[k].from_anchor] = Lower[ps[e[k]].name]
             /\ parts[k] \in Seq(Texts) /\ Follow(parts[k], ps, e[k], e[k + 1] - e[k])
  <2>1. k \in DOMAIN BuildSegments(ps, ls) /\ k \in DOMAIN segs
    BY <1>1
  <2>2. /\ k \in DOMAIN e /\ k + 1 \in DOMAIN e
        /\ e[k] \in DOMAIN ps /\ e[k + 1] \in DOMAIN ps /\ e[k] < e[k + 1]
    BY <2>1, SegmentShape
  <2>3. e[k] \in Nat /\ e[k + 1] \in Nat /\ 1 <= e[k]
    <3> HIDE DEF e
    <3> QED BY <2>2
  <2>4. parts[k] = Append(segs[k].passthroughs, segs[k].to_anchor)
    BY <2>1
  <2>5. LET part == Append(segs[k].passthroughs, segs[k].to_anchor) IN
        /\ segs[k].from_anchor \in Texts /\ Lower[segs[k].from_anchor] = Lower[ps[e[k]].name]
        /\ part \in Seq(Texts) /\ Follow(part, ps, e[k], e[k + 1] - e[k])
    BY <2>1, SegmentPlaces
  <2> HIDE DEF e, segs, parts
  <2> QED BY <2>2, <2>3, <2>4, <2>5
<1> HIDE DEF e, c
<1>5. e[1] = 1
  <2>1. 1 \in 1..c
    BY <1>3
  <2>2. 1 \in DOMAIN e /\ 1 <= e[1]
    BY <1>4, <2>1
  <2>3. PICK k \in DOMAIN e : e[k] = 1
    BY <1>2
  <2>4. k \in Nat /\ k >= 1
    BY <1>2
  <2>5. ~(k > 1)
    <3>1. k > 1 => e[1] < e[k]
      BY <1>2, <2>2 DEF Increasing
    <3>2. e[1] \in Nat
      BY <1>4, <2>1
    <3> QED BY <2>2, <2>3, <3>1, <3>2
  <2> QED BY <2>3, <2>4, <2>5
<1>6. /\ parts \in Seq(Seq(Texts)) /\ parts # <<>> /\ Len(parts) = c
  <2>1. parts = [k \in 1..c |-> parts[k]]
    BY <1>1
  <2> HIDE DEF parts
  <2>2. \A k \in 1..c : parts[k] \in Seq(Texts)
    BY <1>4
  <2>3. parts \in Seq(Seq(Texts)) /\ Len(parts) = c
    BY <1>3, <2>1, <2>2, SeqByElements
  <2> QED BY <1>3, <2>3
<1>7. Walk(segs) = <<segs[1].from_anchor>> \o FlattenSeq(parts)
  BY DEF Walk
<1> HIDE DEF segs, parts
<1>8. PICK acc \in [1..c -> Seq(Texts)] :
        /\ acc[1] = parts[1]
        /\ \A i \in 1..(c - 1) : acc[i + 1] = acc[i] \o parts[i + 1]
        /\ FlattenSeq(parts) = acc[c]
  BY <1>6, FlattenSteps
<1> DEFINE Reaches(k) == Follow(acc[k], ps, 1, e[k + 1] - 1)
           N == {m \in Nat : m + 1 \in 1..c => Reaches(m + 1)}
<1>9. 0 \in N
  <2>1. 1 \in 1..c
    BY <1>3
  <2>2. Follow(parts[1], ps, e[1], e[1 + 1] - e[1])
    BY <1>4, <2>1
  <2> QED BY <1>5, <1>8, <2>2
<1>10. ASSUME NEW m \in Nat, m \in N PROVE m + 1 \in N
  <2>1. SUFFICES ASSUME (m + 1) + 1 \in 1..c PROVE Reaches((m + 1) + 1)
    OBVIOUS
  <2> DEFINE k == m + 1
  <2>2. k \in 1..(c - 1) /\ k \in 1..c /\ k + 1 \in 1..c
    BY <1>3, <2>1
  <2>3. Reaches(k)
    BY <1>10, <2>2
  <2> HIDE DEF k
  <2>4. acc[k + 1] = acc[k] \o parts[k + 1]
    BY <1>8, <2>2
  <2>5. /\ acc[k] \in Seq(Texts) /\ parts[k + 1] \in Seq(Texts)
        /\ e[k + 1] \in Nat /\ e[(k + 1) + 1] \in Nat /\ 1 <= e[k + 1] /\ e[k + 1] < e[(k + 1) + 1]
        /\ Follow(parts[k + 1], ps, e[k + 1], e[(k + 1) + 1] - e[k + 1])
    BY <1>4, <1>8, <2>2
  <2>6. Reaches(k + 1)
    BY <2>3, <2>4, <2>5, WalkStep
  <2> QED BY <2>6 DEF k
<1>11. N = Nat
  <2>1. N \in SUBSET Nat
    OBVIOUS
  <2> HIDE DEF N
  <2> QED BY <1>9, <1>10, <2>1, Induction
<1>12. Reaches(c)
  <2>1. c - 1 \in Nat /\ (c - 1) + 1 = c /\ c \in 1..c
    BY <1>3
  <2>2. c - 1 \in N
    <3> HIDE DEF N
    <3> QED BY <1>11, <2>1
  <2> QED BY <2>1, <2>2
<1>13. 1 < e[c + 1] /\ c + 1 \in DOMAIN e /\ e[c + 1] \in Nat
  <2>1. c \in 1..c
    BY <1>3
  <2> QED BY <1>4, <2>1
<1>14. Folded(Walk(segs)) = Path(ps, e[c + 1])
  <2> DEFINE w == <<segs[1].from_anchor>> \o acc[c]
  <2>1. /\ segs[1].from_anchor \in Texts /\ Lower[segs[1].from_anchor] = Lower[ps[1].name]
        /\ acc[c] \in Seq(Texts)
    <3>1. 1 \in 1..c /\ c \in 1..c
      BY <1>3
    <3> QED BY <1>4, <1>5, <1>8, <3>1
  <2>2. <<segs[1].from_anchor>> \in Seq(Texts) /\ Len(<<segs[1].from_anchor>>) = 1
    BY <2>1
  <2>3. /\ w \in Seq(Texts) /\ Len(w) = 1 + Len(acc[c])
        /\ \A j \in 1..1 : w[j] = <<segs[1].from_anchor>>[j]
        /\ \A j \in 2..(1 + Len(acc[c])) : w[j] = acc[c][j - 1]
    BY <2>1, <2>2, ConcatTwo
  <2>4. Walk(segs) = w
    BY <1>7, <1>8
  <2> HIDE DEF w
  <2>5. DOMAIN w = 1..e[c + 1]
    <3>1. Len(w) = e[c + 1]
      BY <1>12, <1>13, <2>3 DEF Follow
    <3> QED BY <2>3, <3>1
  <2>6. ASSUME NEW j \in 1..e[c + 1] PROVE Lower[w[j]] = Lower[ps[j].name]
    <3>1. CASE j = 1
      BY <2>1, <2>3, <3>1
    <3>2. CASE j # 1
      <4>1. /\ j - 1 \in 1..(e[c + 1] - 1) /\ 1 + (j - 1) = j
            /\ j \in 2..(1 + Len(acc[c]))
        BY <1>12, <1>13, <3>2 DEF Follow
      <4>2. w[j] = acc[c][j - 1]
        BY <2>3, <4>1
      <4>3. Lower[acc[c][j - 1]] = Lower[ps[1 + (j - 1)].name]
        BY <1>12, <4>1 DEF Follow
      <4> QED BY <4>1, <4>2, <4>3
    <3> QED BY <3>1, <3>2
  <2> QED BY <2>4, <2>5, <2>6 DEF Folded, Path
<1> QED BY <1>3, <1>5, <1>13, <1>14 DEF e, c, segs
\* Of a recording under review the segments reach the last place or the one before.
LEMMA WalkEnds ==
  ASSUME IInv, awaiting = "confirmation"
  PROVE  LET n == Len(anchors)
             e == Endpoints(anchors)
             c == Count(anchors, legs)
         IN BuildSegments(anchors, legs) # <<>> /\ e[c + 1] \in {n - 1, n}
<1> DEFINE n == Len(anchors)
           e == Endpoints(anchors)
           c == Count(anchors, legs)
           t == [k \in DOMAIN legs |-> legs[k].at]
<1>1. /\ anchors \in Seq(Anchor) /\ n \in Nat /\ DOMAIN anchors = 1..n
      /\ legs \in Seq(Leg) /\ legs # <<>> /\ Len(legs) \in Nat /\ DOMAIN legs = 1..Len(legs)
      /\ n \in Open /\ Open \subseteq {n - 1, n}
      /\ Changes \subseteq 1..n /\ \A i \in Changes : ~anchors[i].is_passthrough
  BY DEF IInv, TypeOK, StageInv, Changes
<1>2. /\ \A j, k \in DOMAIN legs : j < k => legs[j].at < legs[k].at
      /\ \A k \in DOMAIN legs : legs[k].at \in Changes
      /\ \A i \in Open, k \in DOMAIN legs : legs[k].at < i
  BY LegsPlaced DEF LegsOnTheirSegments
<1>3. Leads(anchors)
  <2>1. 1 \in DOMAIN legs
    <3>1. legs \in Seq(Leg) /\ legs # <<>>
      BY <1>1
    <3> QED BY <3>1
  <2>2. legs[1].at \in Changes /\ legs[1].at < n
    BY <1>1, <1>2, <2>1
  <2>3. legs[1].at \in DOMAIN anchors /\ ~anchors[legs[1].at].is_passthrough
    BY <1>1, <2>2
  <2> QED BY <2>2, <2>3 DEF Leads
<1>4. /\ c \in Nat \ {0} /\ n >= 2 /\ BuildSegments(anchors, legs) # <<>>
  BY <1>1, <1>3, SegmentsExist
<1>5. /\ e \in Seq(1..n) /\ Increasing(e)
      /\ \A k \in DOMAIN e : e[k] \in DOMAIN anchors /\ Delimits(anchors, e[k])
      /\ \A i \in DOMAIN anchors : Delimits(anchors, i) => \E k \in DOMAIN e : e[k] = i
  BY <1>1, EndpointsList
<1>6. (c = Len(legs) /\ Len(legs) < Len(e) - 1) \/ c = Len(e) - 1
  BY DEF Count
<1> HIDE DEF e, c, t
<1>7. e \in Seq(Nat) /\ Len(e) \in Nat /\ DOMAIN e = 1..Len(e)
  <2>1. 1..n \subseteq Nat
    OBVIOUS
  <2> QED BY <1>5, <2>1
<1>8. CASE c = Len(e) - 1
  <2>1. PICK k \in DOMAIN e : e[k] = n
    <3>1. n \in DOMAIN anchors
      <4>1. n \in Nat /\ n >= 2 /\ DOMAIN anchors = 1..n
        BY <1>1, <1>4
      <4> HIDE DEF n
      <4> QED BY <4>1
    <3>2. Delimits(anchors, n)
      BY DEF Delimits
    <3> QED BY <1>5, <3>1, <3>2
  <2>2. Len(e) \in DOMAIN e /\ c + 1 = Len(e)
    BY <1>4, <1>7, <1>8
  <2>3. k = Len(e)
    <3>1. e[Len(e)] \in 1..n
      BY <1>5, <2>2
    <3>2. k < Len(e) => e[k] < e[Len(e)]
      BY <1>5, <2>2 DEF Increasing
    <3>3. k \in 1..Len(e) /\ n \in Nat
      BY <1>1, <1>7
    <3> HIDE DEF n
    <3>4. ~(k < Len(e))
      BY <2>1, <3>1, <3>2, <3>3
    <3> QED BY <1>7, <3>3, <3>4
  <2> HIDE DEF n
  <2>4. e[c + 1] = n
    BY <2>1, <2>2, <2>3
  <2> QED BY <1>4, <2>4 DEF e, c, n
<1>9. CASE c = Len(legs) /\ Len(legs) < Len(e) - 1
  <2>1. /\ t \in Seq(Nat) /\ Len(t) = Len(legs) /\ DOMAIN t = DOMAIN legs
        /\ \A k \in DOMAIN legs : t[k] = legs[k].at
    <3>1. \A k \in 1..Len(legs) : legs[k].at \in Nat
      <4>1. legs \in Seq(Leg)
        BY <1>1
      <4>2. \A k \in 1..Len(legs) : legs[k] \in Leg
        BY <4>1
      <4>3. \A l \in Leg : l.at \in Nat
        BY DEF Leg
      <4> QED BY <4>2, <4>3
    <3>2. Len(legs) \in Nat /\ DOMAIN legs = 1..Len(legs)
      BY <1>1
    <3>3. t = [k \in 1..Len(legs) |-> legs[k].at]
      BY <3>2 DEF t
    <3>4. \A k \in 1..Len(legs) : t[k] = legs[k].at
      BY <3>3
    <3>5. t = [k \in 1..Len(legs) |-> t[k]]
      BY <3>3
    <3>6. t \in Seq(Nat) /\ Len(t) = Len(legs)
      BY <3>1, <3>2, <3>4, <3>5, SeqByElements
    <3>7. DOMAIN t = 1..Len(legs)
      BY <3>3
    <3>8. \A k \in DOMAIN legs : t[k] = legs[k].at
      BY <3>2, <3>4
    <3>9. DOMAIN t = DOMAIN legs
      BY <3>2, <3>7
    <3> QED BY <3>6, <3>8, <3>9
  <2> HIDE DEF n
  <2>2. Increasing(t)
    BY <1>2, <2>1 DEF Increasing
  <2>3. \A k \in DOMAIN t : \E i \in DOMAIN e : e[i] = t[k]
    <3>1. ASSUME NEW k \in DOMAIN t PROVE \E i \in DOMAIN e : e[i] = t[k]
      <4>1. t[k] \in Changes
        BY <1>2, <2>1
      <4>2. t[k] \in DOMAIN anchors /\ Delimits(anchors, t[k])
        BY <1>1, <4>1 DEF Delimits
      <4> QED BY <1>5, <4>2
    <3> QED BY <3>1
  <2>4. ASSUME NEW i \in DOMAIN e
        PROVE  e[i] \in Open \/ \E k \in DOMAIN t : t[k] = e[i]
    <3>1. e[i] \in DOMAIN anchors /\ (~anchors[e[i]].is_passthrough \/ e[i] = n)
      BY <1>5 DEF Delimits, n
    <3>2. e[i] \in Changes
      <4>1. n \in Changes
        BY <1>1 DEF Open
      <4>2. CASE ~anchors[e[i]].is_passthrough
        BY <3>1, <4>2 DEF Changes
      <4> QED BY <3>1, <4>1, <4>2
    <3>3. CASE e[i] \in LegStarts
      <4>1. PICK k \in DOMAIN legs : legs[k].at = e[i]
        BY <3>3 DEF LegStarts
      <4> QED BY <2>1, <4>1
    <3> QED BY <3>2, <3>3 DEF Open
  <2>5. \A i \in DOMAIN e : \/ \E k \in DOMAIN t : t[k] = e[i]
                            \/ \A k \in DOMAIN t : t[k] < e[i]
    BY <1>2, <2>1, <2>4
  <2>6. \A k \in DOMAIN t : k \in DOMAIN e /\ e[k] = t[k]
    BY <1>7, <1>5, <2>1, <2>2, <2>3, <2>5, IncreasingPrefix
  <2>7. c + 1 \in DOMAIN e /\ c + 1 \in Nat /\ DOMAIN t = 1..c
    <3>1. Len(legs) \in Nat /\ DOMAIN legs = 1..Len(legs)
      BY <1>1
    <3> QED BY <1>4, <1>7, <1>9, <2>1, <3>1
  <2>8. ASSUME NEW k \in DOMAIN t PROVE t[k] # e[c + 1]
    <3>1. k \in 1..c /\ k \in DOMAIN e /\ e[k] = t[k]
      BY <2>6, <2>7
    <3>2. k < c + 1
      BY <1>4, <3>1
    <3>3. e[k] < e[c + 1]
      BY <1>5, <2>7, <3>1, <3>2 DEF Increasing
    <3>4. e[k] \in Nat /\ e[c + 1] \in Nat
      BY <1>7, <2>7, <3>1
    <3> QED BY <3>1, <3>3, <3>4
  <2>9. e[c + 1] \in Open
    BY <2>4, <2>7, <2>8
  <2>10. e[c + 1] \in {n - 1, n}
    BY <1>1, <2>9
  <2> QED BY <1>4, <2>10 DEF e, c, n
<1> QED BY <1>6, <1>8, <1>9
LEMMA PhaseIs ==
  /\ awaiting = "idle" => Phase = "idle"
  /\ awaiting = "confirmation" => Phase = "review"
  /\ awaiting \notin {"idle", "confirmation"} => Phase = "capturing"
BY DEF Phase

LEMMA PhaseBecomes ==
  /\ awaiting' = "idle" => Phase' = "idle"
  /\ awaiting' = "confirmation" => Phase' = "review"
  /\ awaiting' \notin {"idle", "confirmation"} => Phase' = "capturing"
BY DEF Phase

LEMMA TrailIsPath ==
  ASSUME TypeOK
  PROVE  /\ Trail = Path(anchors, Len(anchors))
         /\ Trail \in Seq({Lower[t] : t \in Texts})
         /\ Len(Trail) = Len(anchors) /\ Len(anchors) \in Nat
<1>1. /\ anchors \in Seq(Anchor) /\ Len(anchors) \in Nat /\ DOMAIN anchors = 1..Len(anchors)
      /\ \A i \in 1..Len(anchors) : anchors[i].name \in Texts
  <2>1. anchors \in Seq(Anchor)
    BY DEF TypeOK
  <2>2. \A a \in Anchor : a.name \in Texts
    BY DEF Anchor
  <2> QED BY <2>1, <2>2
<1>2. Trail = [i \in 1..Len(anchors) |-> Lower[anchors[i].name]]
  BY <1>1 DEF Trail, Folded
<1>3. Trail = [i \in 1..Len(anchors) |-> Trail[i]]
  BY <1>2
<1>4. \A i \in 1..Len(anchors) : Trail[i] \in {Lower[t] : t \in Texts}
  BY <1>1, <1>2
<1>5. Trail \in Seq({Lower[t] : t \in Texts}) /\ Len(Trail) = Len(anchors)
  BY <1>1, <1>3, <1>4, SeqByElements
<1> QED BY <1>1, <1>2, <1>5 DEF Path

LEMMA AppendIs ==
  ASSUME NEW T, NEW s \in Seq(T), NEW x \in T
  PROVE  Append(s, x) = [i \in 1..(Len(s) + 1) |-> IF i = Len(s) + 1 THEN x ELSE s[i]]
<1> DEFINE a == Append(s, x)
<1>1. /\ a \in Seq(T) /\ Len(a) = Len(s) + 1 /\ Len(s) \in Nat
      /\ \A j \in 1..Len(s) : a[j] = s[j]
      /\ a[Len(s) + 1] = x
  BY AppendOne
<1> HIDE DEF a
<1>2. a = [i \in 1..(Len(s) + 1) |-> a[i]]
  BY <1>1
<1>3. \A i \in 1..(Len(s) + 1) : i = Len(s) + 1 \/ i \in 1..Len(s)
  BY <1>1
<1>4. \A i \in 1..(Len(s) + 1) : a[i] = IF i = Len(s) + 1 THEN x ELSE s[i]
  BY <1>1, <1>3
<1> QED BY <1>2, <1>4 DEF a

LEMMA PinExtends ==
  ASSUME TypeOK, anchors' = Pinned
  PROVE  Trail' = Append(Trail, Lower[pending_anchor_name])
<1> DEFINE n == Len(anchors)
<1>1. /\ anchors \in Seq(Anchor) /\ n \in Nat /\ DOMAIN anchors = 1..n
  BY DEF TypeOK
<1>2. /\ DOMAIN anchors' = 1..(n + 1)
      /\ \A i \in 1..n : anchors'[i] = anchors[i]
      /\ anchors'[n + 1].name = pending_anchor_name
  BY <1>1 DEF Pinned
<1>3. Trail' = [i \in 1..(n + 1) |-> Lower[anchors'[i].name]]
  BY <1>2 DEF Trail, Folded
<1>4. Trail = [i \in 1..n |-> Lower[anchors[i].name]]
  BY TrailIsPath DEF Path
<1>5. Trail \in Seq({Lower[t] : t \in Texts}) /\ Len(Trail) = n
  BY TrailIsPath
<1>6. Append(Trail, Lower[pending_anchor_name]) =
        [i \in 1..(n + 1) |-> IF i = n + 1 THEN Lower[pending_anchor_name] ELSE Trail[i]]
  BY <1>1, <1>5
<1>7. ASSUME NEW i \in 1..(n + 1)
      PROVE  Lower[anchors'[i].name] = IF i = n + 1 THEN Lower[pending_anchor_name] ELSE Trail[i]
  <2>1. CASE i = n + 1
    BY <1>2, <2>1
  <2>2. CASE i # n + 1
    <3>1. i \in 1..n
      BY <1>1, <2>2
    <3> QED BY <1>2, <1>4, <2>2, <3>1
  <2> QED BY <2>1, <2>2
<1> QED BY <1>3, <1>6, <1>7

\* Marking a place as passed through leaves the trail as it was.
LEMMA LandmarkKeepsTrail ==
  ASSUME TypeOK, SameVehicle
  PROVE  Trail' = Trail
<1>1. /\ anchors \in Seq(Anchor) /\ DOMAIN anchors = 1..Len(anchors)
      /\ anchors' = [anchors EXCEPT ![Len(anchors)] = [name |-> @.name, is_passthrough |-> TRUE]]
  BY DEF TypeOK, SameVehicle
<1>2. /\ DOMAIN anchors' = DOMAIN anchors
      /\ \A i \in DOMAIN anchors : anchors'[i].name = anchors[i].name
  BY <1>1
<1> QED BY <1>2 DEF Trail, Folded

LEMMA TrailCleared ==
  ASSUME Clear
  PROVE  Trail' = <<>>
<1>1. anchors' = <<>> /\ DOMAIN anchors' = {}
  BY DEF Clear
<1>2. Trail' = [i \in {} |-> Lower[anchors'[i].name]]
  BY <1>1 DEF Trail, Folded
<1> QED BY <1>2

LEMMA Prefix ==
  ASSUME TypeOK, NEW m \in 1..Len(anchors)
  PROVE  SubSeq(Trail, 1, m) = Path(anchors, m)
<1>1. /\ Trail = [i \in 1..Len(anchors) |-> Lower[anchors[i].name]]
      /\ Trail \in Seq({Lower[t] : t \in Texts}) /\ Len(Trail) = Len(anchors) /\ Len(anchors) \in Nat
  BY TrailIsPath DEF Path
<1>2. SubSeq(Trail, 1, m) = [i \in 1..m |-> Trail[i]]
  BY <1>1
<1>3. \A i \in 1..m : Trail[i] = Lower[anchors[i].name]
  <2>1. 1..m \subseteq 1..Len(anchors)
    BY <1>1
  <2> QED BY <1>1, <2>1
<1> QED BY <1>2, <1>3 DEF Path
\* A step of Contribution, in terms of what a state of the dialogue stands for.
Promised == Promise!Next \/ UNCHANGED <<Phase, Trail, Walks>>

LEMMA Stutters ==
  ASSUME UNCHANGED <<anchors, filed>>,
         \/ awaiting \notin {"idle", "confirmation"} /\ awaiting' \notin {"idle", "confirmation"}
         \/ UNCHANGED awaiting
  PROVE  Promised
<1>1. Trail' = Trail /\ Walks' = Walks
  BY DEF Trail, Walks
<1>2. Phase' = Phase
  BY DEF Phase
<1> QED BY <1>1, <1>2 DEF Promised

LEMMA Pins ==
  ASSUME TypeOK, awaiting \notin {"idle", "confirmation"}, awaiting' # "idle",
         pending_anchor_name \in Texts, anchors' = Pinned, UNCHANGED filed,
         awaiting' = "confirmation" => anchors # <<>>
  PROVE  Promised
<1> DEFINE p == Lower[pending_anchor_name]
<1>1. p \in {Lower[t] : t \in Texts}
  OBVIOUS
<1>2. /\ Phase = "capturing"
      /\ Phase' = "capturing" \/ (awaiting' = "confirmation" /\ Phase' = "review")
  BY PhaseIs, PhaseBecomes
<1>3. Trail' = Append(Trail, p) /\ Walks' = Walks
  BY PinExtends DEF Walks
<1>4. awaiting' = "confirmation" => Len(Trail') >= 2
  <2>1. /\ Trail \in Seq({Lower[t] : t \in Texts}) /\ Len(Trail) = Len(anchors)
        /\ anchors \in Seq(Anchor)
    BY TrailIsPath DEF TypeOK
  <2>2. Len(Trail') = Len(anchors) + 1
    BY <1>3, <2>1
  <2>3. anchors # <<>> => Len(anchors) \in Nat \ {0}
    BY <2>1
  <2> QED BY <2>2, <2>3
<1>5. Promise!Pin(p)
  BY <1>2, <1>3, <1>4 DEF Promise!Pin, Phase, Trail, Walks
<1> QED BY <1>1, <1>5 DEF Promised, Promise!Next

LEMMA Drops ==
  ASSUME Clear, UNCHANGED filed, awaiting # "idle"
  PROVE  Promised
<1>1. Trail' = <<>> /\ Walks' = Walks
  BY TrailCleared DEF Walks
<1>2. Phase # "idle" /\ Phase' = "idle"
  BY PhaseIs, PhaseBecomes DEF Clear
<1>3. Promise!Drop
  BY <1>1, <1>2 DEF Promise!Drop, Phase, Trail, Walks
<1> QED BY <1>3 DEF Promised, Promise!Next

LEMMA Begins ==
  ASSUME RInv, Start
  PROVE  Promised
<1>1. Phase = "idle" /\ Phase' = "capturing" /\ Trail' = Trail /\ Walks' = Walks
  BY PhaseIs, PhaseBecomes DEF Start, capture, Trail, Walks
<1>2. Len(Walks) < MaxFiled
  <2>1. filed \in Seq(Corridors) /\ Len(filed) < MaxFiled
    BY DEF RInv, Start
  <2>2. Len(Walks) = Len(filed)
    BY <2>1 DEF Walks
  <2> QED BY <2>1, <2>2
<1>3. Promise!Begin
  BY <1>1, <1>2 DEF Promise!Begin, Phase, Trail, Walks
<1> QED BY <1>3 DEF Promised, Promise!Next

\* A confirmed recording files a walk over the trail, to its last place or the one before.
LEMMA Files ==
  ASSUME RInv, Confirm
  PROVE  Promised
<1> DEFINE n == Len(anchors)
           m == Endpoints(anchors)[Count(anchors, legs) + 1]
           corridor == Corridor(anchors, legs, destination_name)
           walk == Folded(Walk(corridor.segments))
<1>1. /\ awaiting = "confirmation" /\ filed' = Append(filed, corridor) /\ Clear
      /\ IInv /\ TypeOK /\ OriginInv /\ filed \in Seq(Corridors)
      /\ anchors \in Seq(Anchor) /\ legs \in Seq(Leg) /\ destination_name \in Texts
  BY DEF Confirm, RInv, IInv, TypeOK, StageInv
<1>2. BuildSegments(anchors, legs) # <<>> /\ m \in {n - 1, n}
  BY <1>1, WalkEnds
<1>3. anchors # <<>>
  BY <1>2 DEF BuildSegments
<1>4. 1 < m /\ walk = Path(anchors, m)
  BY <1>1, <1>2, <1>3, WalkIsPath DEF OriginInv
<1> HIDE DEF m, corridor, walk
<1>5. /\ Trail \in Seq({Lower[t] : t \in Texts}) /\ Len(Trail) = n /\ n \in Nat
  BY <1>1, TrailIsPath
<1>6. m >= 2 /\ m \in 1..n /\ m \in {Len(Trail) - 1, Len(Trail)}
  <2> HIDE DEF n
  <2> QED BY <1>2, <1>4, <1>5
<1>7. walk = SubSeq(Trail, 1, m)
  BY <1>1, <1>4, <1>6, Prefix
<1>8. Walks' = Append(Walks, walk)
  <2>1. corridor \in Corridors
    BY <1>1 DEF Corridors, corridor
  <2>2. /\ Len(filed) \in Nat /\ DOMAIN filed = 1..Len(filed)
        /\ DOMAIN filed' = 1..(Len(filed) + 1)
        /\ \A i \in 1..Len(filed) : filed'[i] = filed[i]
        /\ filed'[Len(filed) + 1] = corridor
    BY <1>1, <2>1
  <2>3. Walks' = [i \in 1..(Len(filed) + 1) |-> Folded(Walk(filed'[i].segments))]
    BY <2>2 DEF Walks
  <2> DEFINE F(i) == Folded(Walk(filed[i].segments))
  <2>4. Walks = [i \in 1..Len(filed) |-> F(i)]
    BY <2>2 DEF Walks
  <2>5. ASSUME NEW i \in 1..(Len(filed) + 1)
        PROVE  Walks'[i] = IF i = Len(filed) + 1 THEN walk ELSE Walks[i]
    <3>1. CASE i = Len(filed) + 1
      BY <2>2, <2>3, <3>1 DEF walk
    <3>2. CASE i # Len(filed) + 1
      <4>1. i \in 1..Len(filed)
        BY <2>2, <3>2
      <4>2. filed'[i] = filed[i]
        BY <2>2, <4>1
      <4>3. Walks'[i] = F(i)
        BY <2>3, <4>2
      <4> QED BY <2>4, <3>2, <4>1, <4>3
    <3> QED BY <3>1, <3>2
  <2> HIDE DEF F
  <2> DEFINE W == {Walks[i] : i \in 1..Len(filed)} \cup {walk}
  <2>6. walk \in W /\ Walks \in Seq(W) /\ Len(Walks) = Len(filed)
    <3>1. Walks = [i \in 1..Len(filed) |-> Walks[i]]
      BY <2>4
    <3>2. walk \in W /\ \A i \in 1..Len(filed) : Walks[i] \in W
      OBVIOUS
    <3> HIDE DEF W
    <3> QED BY <2>2, <3>1, <3>2, SeqByElements
  <2> HIDE DEF W
  <2>7. Append(Walks, walk) = [i \in 1..(Len(filed) + 1) |-> IF i = Len(filed) + 1 THEN walk ELSE Walks[i]]
    BY <2>6, AppendIs
  <2>8. Walks' = [i \in 1..(Len(filed) + 1) |-> Walks'[i]]
    BY <2>3
  <2> QED BY <2>5, <2>7, <2>8
<1>9. Phase = "review" /\ Phase' = "idle" /\ Trail' = <<>>
  BY <1>1, PhaseIs, PhaseBecomes, TrailCleared DEF Clear
<1>10. Promise!File(m)
  BY <1>6, <1>7, <1>8, <1>9 DEF Promise!File, Phase, Trail, Walks
<1>11. \E k \in {Len(Trail) - 1, Len(Trail)} : Promise!File(k)
  BY <1>6, <1>10
<1> QED BY <1>11 DEF Promised, Promise!Next, Trail, Phase, Walks

LEMMA SummaryPins ==
  ASSUME IInv, awaiting \in {"next_anchor_location", "destination_location"},
         ShowSummary(Pinned, Promoted)
  PROVE  Promised
<1>1. BuildSegments(Pinned, Promoted) # <<>> /\ Leads(Pinned)
  BY PinnedTrip, SegmentsExist
<1>2. anchors' = Pinned /\ awaiting' = "confirmation" /\ UNCHANGED filed
  BY <1>1 DEF ShowSummary
<1>3. TypeOK /\ pending_anchor_name \in Texts
  BY DEF IInv, TypeOK, StageInv
<1>4. anchors # <<>>
  <2>1. CASE anchors = <<>>
    <3>1. Len(Pinned) = 1 /\ DOMAIN Pinned = 1..1
      BY <2>1 DEF Pinned
    <3> QED BY <1>1, <3>1 DEF Leads
  <2> QED BY <2>1
<1> QED BY <1>2, <1>3, <1>4, Pins

LEMMA StepRefines ==
  ASSUME RInv, Next
  PROVE  Promised
<1>1. IInv /\ TypeOK
  BY DEF RInv, IInv
<1>2. CASE Start
  BY <1>2, Begins
<1>3. ASSUME NEW t \in Texts, GiveDestination(t) \/ GiveOriginName(t) \/ NameNextAnchor(t)
      PROVE  Promised
  BY <1>3, Stutters DEF GiveDestination, GiveOriginName, NameNextAnchor
<1>4. CASE PinOrigin
  <2>1. pending_anchor_name \in Texts
    BY <1>1, <1>4 DEF PinOrigin, IInv, TypeOK, StageInv
  <2> QED BY <1>1, <1>4, <2>1, Pins DEF PinOrigin
<1>5. CASE DescribeLeg
  BY <1>5, Stutters DEF DescribeLeg
<1>6. CASE PinNextAnchor
  <2>1. pending_anchor_name \in Texts
    BY <1>1, <1>6 DEF PinNextAnchor, IInv, TypeOK, StageInv
  <2>2. CASE ShowSummary(Pinned, Promoted)
    BY <1>1, <1>6, <2>2, SummaryPins DEF PinNextAnchor
  <2>3. CASE ~ShowSummary(Pinned, Promoted)
    <3>1. /\ awaiting = "next_anchor_location" /\ awaiting' = "transfer_decision"
          /\ anchors' = Pinned /\ UNCHANGED filed
      BY <1>6, <2>3 DEF PinNextAnchor
    <3> QED BY <1>1, <2>1, <3>1, Pins
  <2> QED BY <2>2, <2>3
<1>7. CASE PinDestination
  BY <1>1, <1>7, SummaryPins DEF PinDestination
<1>8. CASE SameVehicle
  <2>1. Trail' = Trail /\ Walks' = Walks
    BY <1>1, <1>8, LandmarkKeepsTrail DEF SameVehicle, Walks
  <2>2. Phase' = Phase
    BY <1>8, PhaseIs, PhaseBecomes DEF SameVehicle
  <2> QED BY <2>1, <2>2 DEF Promised
<1>9. CASE ChangedVehicle
  BY <1>9, Stutters DEF ChangedVehicle
<1>10. CASE End
  <2>1. CASE EndNotRecording
    BY <2>1, Stutters DEF EndNotRecording, vars, capture
  <2>2. CASE EndTooEarly
    BY <2>2, Drops DEF EndTooEarly
  <2>3. CASE EndAtDestination
    <3>1. ~TooEarly /\ ~NeedsDestination /\ awaiting # "idle" /\ ShowSummary(anchors, legs)
      BY <2>3 DEF EndAtDestination
    <3>2. CASE BuildSegments(anchors, legs) = <<>>
      BY <3>1, <3>2, Drops DEF ShowSummary
    <3>3. CASE BuildSegments(anchors, legs) # <<>>
      <4>1. awaiting = "confirmation"
        BY <1>1, <3>1 DEF TooEarly, NeedsDestination, IInv, ReviewOnArrival
      <4>2. awaiting' = "confirmation" /\ anchors' = anchors /\ UNCHANGED filed
        BY <3>1, <3>3 DEF ShowSummary
      <4> QED BY <4>1, <4>2, Stutters
    <3> QED BY <3>2, <3>3
  <2>4. CASE EndBeforeLeg
    <3>1. awaiting = "leg_info"
      BY <1>1, <2>4 DEF EndBeforeLeg, LegDue, IInv, TransfersAreChanges
    <3> QED BY <2>4, <3>1, Stutters DEF EndBeforeLeg, capture
  <2>5. CASE EndBeforeDestination
    <3>1. awaiting # "confirmation"
      BY <1>1, <2>5 DEF EndBeforeDestination, NeedsDestination, TooEarly, IInv, StageInv, ReviewOnArrival
    <3> QED BY <2>5, <3>1, Stutters DEF EndBeforeDestination
  <2> QED BY <1>10, <2>1, <2>2, <2>3, <2>4, <2>5 DEF End
<1>11. CASE Confirm
  BY <1>11, Files
<1>12. CASE Discard
  BY <1>12, Drops DEF Discard
<1>13. CASE Forget
  BY <1>13, Drops DEF Forget
<1> QED BY <1>2, <1>3, <1>4, <1>5, <1>6, <1>7, <1>8, <1>9, <1>10, <1>11, <1>12, <1>13 DEF Next

\* Whatever the dialogue, and however long the trip, what is filed is a walk over the
\* places pinned, from the first to the last or the one before, skipping none.
THEOREM ContributionKept == Spec => ImplementsContribution
<1>1. Init => Promise!Init
  <2>1. ASSUME Init PROVE Phase = "idle" /\ Trail = <<>> /\ Walks = <<>>
    <3>1. awaiting = "idle" /\ DOMAIN anchors = {} /\ DOMAIN filed = {}
      BY <2>1 DEF Init
    <3>2. Trail = [i \in {} |-> Lower[anchors[i].name]]
      BY <3>1 DEF Trail, Folded
    <3>3. Walks = [i \in {} |-> Folded(Walk(filed[i].segments))]
      BY <3>1 DEF Walks
    <3> QED BY <3>1, <3>2, <3>3, PhaseIs
  <2> QED BY <2>1 DEF Promise!Init, Phase, Trail, Walks
<1>2. RInv /\ [Next]_vars => [Promise!Next]_(Promise!vars)
  <2>1. ASSUME RInv, Next PROVE [Promise!Next]_(Promise!vars)
    BY <2>1, StepRefines DEF Promised, Promise!vars, Phase, Trail, Walks
  <2>2. ASSUME UNCHANGED vars PROVE [Promise!Next]_(Promise!vars)
    <3>1. UNCHANGED <<awaiting, anchors, filed>>
      BY <2>2 DEF vars, capture
    <3>2. UNCHANGED <<Phase, Trail, Walks>>
      BY <3>1 DEF Phase, Trail, Walks
    <3> QED BY <3>2 DEF Promise!vars, Phase, Trail, Walks
  <2> QED BY <2>1, <2>2
<1> QED BY <1>1, <1>2, RefinementInvariance, PTL DEF Spec, ImplementsContribution, Promise!Spec
=============================================================================
